---- MODULE Spec2Model ----
(***************************************************************************)
(* Solar Planner worker: the weather-to-solar transformation               *)
(* (processWeatherData, processSolarData and the solar-geometry helpers)   *)
(* as handleDataRequest runs it on a weather-provider reply.               *)
(*                                                                         *)
(* Number representation.  The code computes in IEEE doubles; the model    *)
(* computes in decimal fixed point:                                        *)
(*   - angles (latitude, declination, tilt differences) in hundredths of   *)
(*     a degree;                                                           *)
(*   - gain factors, cosines and efficiencies with 8 decimals (Scale);     *)
(*   - solar energy and peak sun hours with 6 decimals (EScale);           *)
(*   - daily observations in tenths (the provider's resolution);           *)
(*   - emitted psh in hundredths and emitted weather values in tenths,     *)
(*     i.e. exactly the values round(x, 2) and round(x, 1) produce.        *)
(* Products and quotients are truncated to the scale.  NaN and a missing   *)
(* (null/undefined) field are the two out-of-range values NaN and Absent.  *)
(***************************************************************************)
EXTENDS Integers, Sequences, FiniteSets, TLC

\* the transformation on one provider reply
VARIABLES body, latitude, days, weather, solar, locals, pc

\* the worker as a server: clock, environment bindings, the place the
\* providers describe, the SOLAR_CACHE namespace, the requests in progress
VARIABLES now, env, world, kv, req

\* the frontend's results component in one browser tab
VARIABLE ui

coreVars == <<body, latitude, days, weather, solar, locals, pc>>

srvVars == <<now, env, world, kv, req, ui>>

vars == <<coreVars, srvVars>>

----------------------------------------------------------------------------
(* Fixed-point arithmetic standing for the double operations of the code.  *)

Half == 100 * 100

Scale == Half * Half

EScale == 100 * Half

NaN == 0 - 1

Absent == 0 - 99999
\* the two infinite numbers (a JSON number such as 1e999 parses to Infinity)
Infinity == 1999999999
NegInfinity == 0 - Infinity

Abs(x) == IF x < 0 THEN 0 - x ELSE x

Min(a, b) == IF a < b THEN a ELSE b

Max(a, b) == IF a > b THEN a ELSE b

\* Math.round on a value held in units of 1/unit: nearest integer, halves
\* toward +infinity (floor(x + 0.5)).
MathRound(x, unit) == (2 * x + unit) \div (2 * unit)

\* a * b for a, b >= 0, b held at Scale; the result is at the scale of a.
MulFix(a, b) ==
    LET aH == a \div Half
        aL == a % Half
        bH == b \div Half
        bL == b % Half
    IN  aH * bH + ((aH * bL + aL * bH + ((aL * bL) \div Half)) \div Half)

RECURSIVE DivDigits(_, _, _)
\* the next n decimal digits of r / b, for 0 <= r < b
DivDigits(r, b, n) ==
    IF n = 0 THEN 0
    ELSE LET r10 == r * 10
             rest == DivDigits(r10 % b, b, n - 1)
             p == IF n = 1 THEN 1 ELSE IF n = 2 THEN 10 ELSE IF n = 3 THEN 100
                  ELSE IF n = 4 THEN 1000 ELSE IF n = 5 THEN 10000
                  ELSE IF n = 6 THEN 100000 ELSE IF n = 7 THEN 1000000
                  ELSE 10000000
         IN  (r10 \div b) * p + rest

\* a / b at Scale for a >= 0, b > 0 (a and b in the same unit).
DivFix(a, b) == (a \div b) * Scale + DivDigits(a % b, b, 8)

\* (deg * Math.PI) / 180 at Scale, deg in hundredths of a degree:
\* pi / 18000 = 0.0001745329252.
ToRadians(deg) == deg * 17453 + ((deg * 29252) \div 100000)

RECURSIVE CosTerms(_, _, _, _)
\* the Taylor series of the cosine: sum of (-1)^k x^2k / (2k)!, k >= 1
CosTerms(x2, term, k, n) ==
    IF k > n THEN 0
    ELSE LET t == MulFix(term, x2) \div ((2 * k - 1) * (2 * k))
         IN  (IF k % 2 = 1 THEN 0 - t ELSE t) + CosTerms(x2, t, k + 1, n)

\* Math.cos for 0 <= x <= pi/2 (x at Scale); the result is at Scale.
MathCos(x) == Max(0, Scale + CosTerms(MulFix(x, x), Scale, 1, 9))

RECURSIVE SqrtSearch(_, _, _)
\* the largest s in lo..hi with s * s <= c
SqrtSearch(c, lo, hi) ==
    IF lo >= hi THEN lo
    ELSE LET mid == (lo + hi + 1) \div 2
         IN  IF MulFix(mid, mid) <= c
             THEN SqrtSearch(c, mid, hi)
             ELSE SqrtSearch(c, lo, mid - 1)

\* Math.pow(c, 1.5) for 0 <= c <= 1 at Scale: c * sqrt(c).
PowThreeHalves(c) == MulFix(c, SqrtSearch(c, 0, Scale))

----------------------------------------------------------------------------
(* Bounds of the model.                                                    *)

\* latitudes are drawn every LatStep hundredths of a degree, plus LatCases
LatStep == 1000

\* at most MaxDays daily records in a provider reply
MaxDays == 2

\* latitudes (hundredths of a degree) at band edges, at the spec's concrete
\* scenario (30.27), on a declination, where round(|lat|) is 0, and where
\* round(|lat|) equals a month's rounded optimal tilt
LatCases ==
    { 3027, 940, 0 - 1300, 0, 30, 0 - 49, 50, 110, 120, 0 - 1150, 0 - 650,
      1999, 2000, 0 - 2000, 4499, 4500, 0 - 4500, 5999, 6000, 0 - 6000,
      0 - 6690, 0 - 7000, 9000, 0 - 9000 }

Latitudes ==
    { k * LatStep : k \in (0 - (9000 \div LatStep))..(9000 \div LatStep) }
        \cup LatCases

\* datetime of a daily record as <<year, month, day>>; <<0, 0, 0>> is a
\* string that does not parse as a date
\* observations in tenths: degrees F, percent, MJ/m2
Day(dt, e) ==
    [datetime |-> dt, tempmax |-> 800, tempmin |-> 600, temp |-> 700,
     humidity |-> 500, solarenergy |-> e]

DayRecords ==
    { Day(<<2023, 1, 15>>, 72), Day(<<2024, 1, 15>>, 253),
      Day(<<2024, 9, 30>>, 253), Day(<<2024, 9, 30>>, Absent),
      Day(<<0, 0, 0>>, 253) }

DaySeqs == UNION { [1..n -> DayRecords] : n \in 0..MaxDays }

\* the request body may carry a fixedTiltDegrees field (whole degrees)
Bodies == { [fixedTiltDegrees |-> t] : t \in { Absent, 45 } }

----------------------------------------------------------------------------
(* worker/src/utils/math.ts                                                *)

\* item[key] passes the test of the loop: not null/undefined, a number, not
\* NaN (an infinite number passes it)
Counted(val) == val # Absent /\ val # NaN

IsFinite(val) == val \notin { Absent, NaN, Infinity, NegInfinity }

\* the finite part of sum after the loop
SumKey(arr, key) ==
    LET S[i \in 0..Len(arr)] ==
            IF i = 0 THEN 0
            ELSE S[i - 1] + (IF IsFinite(arr[i][key]) THEN arr[i][key] ELSE 0)
    IN  S[Len(arr)]

\* sum after the loop when an infinite value was added: Infinity,
\* NegInfinity, or NaN when both were; 0 when sum is finite
SumOverflow(arr, key) ==
    LET pos == \E i \in 1..Len(arr) : arr[i][key] = Infinity
        neg == \E i \in 1..Len(arr) : arr[i][key] = NegInfinity
    IN  IF pos /\ neg THEN NaN
        ELSE IF pos THEN Infinity
        ELSE IF neg THEN NegInfinity
        ELSE 0

CountKey(arr, key) ==
    Cardinality({ i \in 1..Len(arr) : Counted(arr[i][key]) })

\* avg(arr, key): values in tenths, result at EScale
avg(arr, key) ==
    IF Len(arr) = 0 THEN 0
    ELSE IF CountKey(arr, key) > 0
         THEN IF SumOverflow(arr, key) # 0 THEN SumOverflow(arr, key)
              ELSE (SumKey(arr, key) * (EScale \div 10)) \div CountKey(arr, key)
         ELSE 0

\* 10^decimals as a divisor of EScale
RoundUnit(decimals) ==
    IF decimals = 1 THEN EScale \div 10
    ELSE IF decimals = 2 THEN EScale \div 100
    ELSE EScale \div 10000

\* variant: halves go away from zero
roundHalfAwayFromZero(num, decimals) ==
    IF num = Absent \/ num = NaN THEN 0
    ELSE IF num = Infinity \/ num = NegInfinity THEN num
    ELSE IF num < 0 THEN 0 - MathRound(0 - num, RoundUnit(decimals))
    ELSE MathRound(num, RoundUnit(decimals))

\* variant: Math.round(num * factor + 0.5) / factor
roundUpFromTenth(num, decimals) ==
    IF num = Absent \/ num = NaN THEN 0
    ELSE IF num = Infinity \/ num = NegInfinity THEN num
    ELSE MathRound(num + (RoundUnit(decimals) \div 2), RoundUnit(decimals))

\* round(num, decimals): num at EScale, result in units of 10^-decimals
round(num, decimals) ==
    IF num = Absent \/ num = NaN THEN 0
    ELSE IF num = Infinity \/ num = NegInfinity THEN num
    ELSE MathRound(num, RoundUnit(decimals))

----------------------------------------------------------------------------
(* services/solar.ts                                                       *)

MONTHS ==
    << "Jan", "Feb", "Mar", "Apr", "May", "Jun",
       "Jul", "Aug", "Sep", "Oct", "Nov", "Dec" >>

\* hundredths of a degree
SOLAR_DECLINATIONS ==
    << 0 - 2090, 0 - 1300, 0 - 240, 940, 1880, 2310,
       2120, 1350, 220, 0 - 960, 0 - 1890, 0 - 2300 >>

\* MJ_TO_KWH = 3.6, held in tenths
MJ_TO_KWH == 36

\* max in hundredths of a degree, gains at Scale
LATITUDE_BANDS ==
    [ EQUATORIAL    |-> [max |-> 2000, minGain |-> 103000000, maxGain |-> 115000000],
      MID_LATITUDE  |-> [max |-> 4500, minGain |-> 105000000, maxGain |-> 140000000],
      HIGH_LATITUDE |-> [max |-> 6000, minGain |-> 115000000, maxGain |-> 180000000],
      POLAR         |-> [max |-> 9000, minGain |-> 120000000, maxGain |-> 220000000] ]

\* variant: months counted from 1
getMonthOneBased(datetime) ==
    IF datetime[2] \in 1..12 THEN datetime[2] ELSE NaN

\* new Date(datetime).getMonth() in the worker's (UTC) runtime
getMonth(datetime) ==
    IF datetime[2] \in 1..12 THEN datetime[2] - 1 ELSE NaN

\* variant: the rounded tilt is not clamped to 0..90
calculateMonthlyOptimalTiltNoClamp(lat, month) ==
    LET declination == SOLAR_DECLINATIONS[month]
        optimalTilt == Abs(lat - declination)
    IN  [ tilt |-> MathRound(optimalTilt, 100),
          direction |-> IF declination > lat THEN "N" ELSE "S" ]

\* variant: the sun counts as north of the site when declination >= latitude
calculateMonthlyOptimalTiltGeq(lat, month) ==
    LET declination == SOLAR_DECLINATIONS[month]
        optimalTilt == Abs(lat - declination)
    IN  [ tilt |-> Max(0, Min(90, MathRound(optimalTilt, 100))),
          direction |-> IF declination >= lat THEN "N" ELSE "S" ]

calculateMonthlyOptimalTilt(lat, month) ==
    LET declination == SOLAR_DECLINATIONS[month]
        sunIsNorthOfLocation == declination > lat
        optimalTilt == Abs(lat - declination)
    IN  [ tilt |-> Max(0, Min(90, MathRound(optimalTilt, 100))),
          direction |-> IF sunIsNorthOfLocation THEN "N" ELSE "S" ]

\* variant: the bands include their upper edge (<= instead of <)
getLatitudeGainRangeInclusive(lat) ==
    LET absLat == Abs(lat)
    IN  IF absLat <= LATITUDE_BANDS.EQUATORIAL.max
        THEN [minGain |-> LATITUDE_BANDS.EQUATORIAL.minGain,
              maxGain |-> LATITUDE_BANDS.EQUATORIAL.maxGain]
        ELSE IF absLat <= LATITUDE_BANDS.MID_LATITUDE.max
        THEN [minGain |-> LATITUDE_BANDS.MID_LATITUDE.minGain,
              maxGain |-> LATITUDE_BANDS.MID_LATITUDE.maxGain]
        ELSE IF absLat <= LATITUDE_BANDS.HIGH_LATITUDE.max
        THEN [minGain |-> LATITUDE_BANDS.HIGH_LATITUDE.minGain,
              maxGain |-> LATITUDE_BANDS.HIGH_LATITUDE.maxGain]
        ELSE [minGain |-> LATITUDE_BANDS.POLAR.minGain,
              maxGain |-> LATITUDE_BANDS.POLAR.maxGain]

getLatitudeGainRange(lat) ==
    LET absLat == Abs(lat)
    IN  IF absLat < LATITUDE_BANDS.EQUATORIAL.max
        THEN [minGain |-> LATITUDE_BANDS.EQUATORIAL.minGain,
              maxGain |-> LATITUDE_BANDS.EQUATORIAL.maxGain]
        ELSE IF absLat < LATITUDE_BANDS.MID_LATITUDE.max
        THEN [minGain |-> LATITUDE_BANDS.MID_LATITUDE.minGain,
              maxGain |-> LATITUDE_BANDS.MID_LATITUDE.maxGain]
        ELSE IF absLat < LATITUDE_BANDS.HIGH_LATITUDE.max
        THEN [minGain |-> LATITUDE_BANDS.HIGH_LATITUDE.minGain,
              maxGain |-> LATITUDE_BANDS.HIGH_LATITUDE.maxGain]
        ELSE [minGain |-> LATITUDE_BANDS.POLAR.minGain,
              maxGain |-> LATITUDE_BANDS.POLAR.maxGain]

\* noonElevation / 90 at Scale, noonElevation in hundredths of a degree
ElevationRatio(noonElevation) ==
    IF noonElevation < 0
    THEN 0 - DivFix(0 - noonElevation, 9000)
    ELSE DivFix(noonElevation, 9000)

\* variant: the gain is computed from the rounded, clamped tilt of
\* calculateMonthlyOptimalTilt
calculateMaxTiltGainRounded(lat, month) ==
    LET optimalTilt == calculateMonthlyOptimalTilt(lat, month).tilt * 100
        noonElevation == 9000 - optimalTilt
        elevationFactor == Scale - ElevationRatio(noonElevation)
        range == getLatitudeGainRange(lat)
        gainRange == range.maxGain - range.minGain
        gain == range.minGain + MulFix(gainRange, elevationFactor)
    IN  Max(range.minGain, Min(range.maxGain, gain))

\* variant: the gain is returned without the final clamp
calculateMaxTiltGainNoClamp(lat, month) ==
    LET declination == SOLAR_DECLINATIONS[month]
        optimalTilt == Abs(lat - declination)
        noonElevation == 9000 - optimalTilt
        elevationFactor == Scale - ElevationRatio(noonElevation)
        range == getLatitudeGainRange(lat)
        gainRange == range.maxGain - range.minGain
    IN  range.minGain + MulFix(gainRange, elevationFactor)

calculateMaxTiltGain(lat, month) ==
    LET declination == SOLAR_DECLINATIONS[month]
        optimalTilt == Abs(lat - declination)
        noonElevation == 9000 - optimalTilt
        elevationFactor == Scale - ElevationRatio(noonElevation)
        range == getLatitudeGainRange(lat)
        gainRange == range.maxGain - range.minGain
        gain == range.minGain + MulFix(gainRange, elevationFactor)
    IN  Max(range.minGain, Min(range.maxGain, gain))

\* Math.pow(Math.cos(tiltDiffRad), TILT_PENALTY_EXPONENT), the difference
\* in hundredths of a degree, 0..9000
TiltEfficiency(tiltDifference) ==
    PowThreeHalves(MathCos(ToRadians(tiltDifference)))

\* variant: the efficiency scales the whole gain and the result has no
\* floor at 1.0
calculateTiltGainScaled(lat, tiltAngle, month) ==
    IF tiltAngle = 0 THEN Scale
    ELSE LET optimalTiltForMonth == Abs(lat - SOLAR_DECLINATIONS[month])
             maxGain == calculateMaxTiltGain(lat, month)
             tiltDifference == Abs(tiltAngle - optimalTiltForMonth)
         IN  IF tiltDifference > 9000 THEN NaN
             ELSE Min(maxGain, MulFix(maxGain, TiltEfficiency(tiltDifference)))

\* variant: the deviation is measured from the latitude, not from the
\* month's optimal tilt
calculateTiltGainFromLatitude(lat, tiltAngle, month) ==
    IF tiltAngle = 0 THEN Scale
    ELSE LET maxGain == calculateMaxTiltGain(lat, month)
             tiltDifference == Abs(tiltAngle - Abs(lat))
         IN  IF tiltDifference > 9000 THEN NaN
             ELSE Max(Scale, Min(maxGain,
                      Scale + MulFix(maxGain - Scale, TiltEfficiency(tiltDifference))))

\* variant: no special case for a tilt of 0
calculateTiltGainNoZeroCase(lat, tiltAngle, month) ==
    LET optimalTiltForMonth == Abs(lat - SOLAR_DECLINATIONS[month])
        maxGain == calculateMaxTiltGain(lat, month)
        tiltDifference == Abs(tiltAngle - optimalTiltForMonth)
    IN  IF tiltDifference > 9000 THEN NaN
        ELSE Max(Scale, Min(maxGain,
                 Scale + MulFix(maxGain - Scale, TiltEfficiency(tiltDifference))))

\* tiltAngle in hundredths of a degree
calculateTiltGain(lat, tiltAngle, month) ==
    IF tiltAngle = 0 THEN Scale
    ELSE LET declination == SOLAR_DECLINATIONS[month]
             optimalTiltForMonth == Abs(lat - declination)
             maxGain == calculateMaxTiltGain(lat, month)
             tiltDifference == Abs(tiltAngle - optimalTiltForMonth)
         IN  \* beyond 90 degrees the cosine is negative and Math.pow of a
             \* negative base to 1.5 is NaN, which Math.min and Math.max
             \* pass on
             IF tiltDifference > 9000 THEN NaN
             ELSE LET tiltEfficiency == TiltEfficiency(tiltDifference)
                      gain == Scale + MulFix(maxGain - Scale, tiltEfficiency)
                  IN  Max(Scale, Min(maxGain, gain))

\* variant: no grouping, every month's bucket holds every record
DaysOfMonthUngrouped(ds, m) ==
    SelectSeq(ds, LAMBDA day : TRUE)

\* daysByMonth[m], m in 0..11
DaysOfMonth(ds, m) ==
    SelectSeq(ds, LAMBDA day : getMonth(day.datetime) = m)

\* the tilt strings `${tilt}° ${direction}`
TiltString(tilt, direction) == ToString(tilt) \o "° " \o direction

\* variant: the fixed tilt is Math.floor(|latitude|)
SolarMonthLocalsFloorTilt(ds, lat, m) ==
    LET fixedTilt == Abs(lat) \div 100
        flatPSH == (avg(DaysOfMonth(ds, m), "solarenergy") * 10) \div MJ_TO_KWH
        opt == calculateMonthlyOptimalTilt(lat, m + 1)
        monthlyTiltGain == calculateMaxTiltGain(lat, m + 1)
        fixedTiltGain == calculateTiltGain(lat, fixedTilt * 100, m + 1)
        minGain == IF fixedTiltGain = NaN THEN NaN
                   ELSE Min(fixedTiltGain, monthlyTiltGain)
    IN  [ fixedTilt |-> fixedTilt,
          range |-> getLatitudeGainRange(lat),
          monthlyTilt |-> opt.tilt,
          monthlyDirection |-> opt.direction,
          flatPSH |-> flatPSH,
          monthlyTiltGain |-> monthlyTiltGain,
          fixedTiltGain |-> fixedTiltGain,
          monthlyPSH |-> MulFix(flatPSH, monthlyTiltGain),
          fixedPSH |-> IF minGain = NaN THEN NaN ELSE MulFix(flatPSH, minGain) ]

\* one iteration of the loop of processSolarData (m in 0..11): its locals
SolarMonthLocals(ds, lat, m) ==
    LET fixedTilt == MathRound(Abs(lat), 100)
        monthDays == DaysOfMonth(ds, m)
        solarEnergyMJ == avg(monthDays, "solarenergy")
        flatPSH == (solarEnergyMJ * 10) \div MJ_TO_KWH
        monthNum == m + 1
        opt == calculateMonthlyOptimalTilt(lat, monthNum)
        monthlyTiltGain == calculateMaxTiltGain(lat, monthNum)
        fixedTiltGain == calculateTiltGain(lat, fixedTilt * 100, monthNum)
        minGain == IF fixedTiltGain = NaN THEN NaN
                   ELSE Min(fixedTiltGain, monthlyTiltGain)
    IN  [ fixedTilt |-> fixedTilt,
          range |-> getLatitudeGainRange(lat),
          monthlyTilt |-> opt.tilt,
          monthlyDirection |-> opt.direction,
          flatPSH |-> flatPSH,
          monthlyTiltGain |-> monthlyTiltGain,
          fixedTiltGain |-> fixedTiltGain,
          monthlyPSH |-> MulFix(flatPSH, monthlyTiltGain),
          fixedPSH |-> IF minGain = NaN THEN NaN ELSE MulFix(flatPSH, minGain) ]

\* the entry pushed for month index m from the locals l of its iteration,
\* psh in hundredths
SolarMonthData(l, lat, m) ==
    LET yearlyDirection == IF lat >= 0 THEN "S" ELSE "N"
    IN  [ month |-> MONTHS[m + 1],
          monthlyOptimal |-> [ tilt |-> TiltString(l.monthlyTilt, l.monthlyDirection),
                               psh |-> round(l.monthlyPSH, 2) ],
          yearlyFixed |-> [ tilt |-> TiltString(l.fixedTilt, yearlyDirection),
                            psh |-> round(l.fixedPSH, 2) ],
          flat |-> [ tilt |-> "0°", psh |-> round(l.flatPSH, 2) ] ]

\* the locals of the 12 iterations
processSolarLocals(ds, lat) ==
    [ i \in 1..12 |-> SolarMonthLocals(ds, lat, i - 1) ]

\* variant: the loop stops one month short (m < 11)
processSolarDataShort(ls, lat) ==
    [ i \in 1..11 |-> SolarMonthData(ls[i], lat, i - 1) ]

\* the array returned, from the locals ls of the iterations
processSolarData(ls, lat) ==
    [ i \in 1..12 |-> SolarMonthData(ls[i], lat, i - 1) ]

----------------------------------------------------------------------------
(* services/weather.ts                                                     *)

\* the entry pushed for month m, values in tenths
WeatherData(ds, m) ==
    LET monthDays == DaysOfMonth(ds, m)
    IN  [ month |-> MONTHS[m + 1],
          highF |-> round(avg(monthDays, "tempmax"), 1),
          lowF |-> round(avg(monthDays, "tempmin"), 1),
          meanF |-> round(avg(monthDays, "temp"), 1),
          humidity |-> round(avg(monthDays, "humidity"), 1) ]

processWeatherData(ds) ==
    [ i \in 1..12 |-> WeatherData(ds, i - 1) ]

----------------------------------------------------------------------------
(* Strings are sequences of one-character strings.                         *)

\* characters matched by \s and removed by String.prototype.trim
WhiteSpace == { " ", "\t", "\n" }

\* characters matched by [\x00-\x1F\x7F]
ControlChars == { "\t", "\n" }

UpperCase == << "A", "T", "X", "U" >>
LowerCase == << "a", "t", "x", "u" >>

\* one character of String.prototype.toLowerCase
LowerChar(c) ==
    IF \E i \in 1..Len(UpperCase) : UpperCase[i] = c
    THEN LowerCase[CHOOSE i \in 1..Len(UpperCase) : UpperCase[i] = c]
    ELSE c

toLowerCase(str) == [ i \in 1..Len(str) |-> LowerChar(str[i]) ]

RECURSIVE trimStart(_)
trimStart(str) ==
    IF Len(str) > 0 /\ Head(str) \in WhiteSpace THEN trimStart(Tail(str))
    ELSE str

RECURSIVE trimEnd(_)
trimEnd(str) ==
    IF Len(str) > 0 /\ str[Len(str)] \in WhiteSpace
    THEN trimEnd(SubSeq(str, 1, Len(str) - 1))
    ELSE str

trim(str) == trimEnd(trimStart(str))

\* str.replace(/\s+/g, '_'): every maximal run of whitespace becomes "_"
RECURSIVE replaceWhiteSpaceRuns(_)
replaceWhiteSpaceRuns(str) ==
    IF Len(str) = 0 THEN << >>
    ELSE IF Head(str) \in WhiteSpace
         THEN << "_" >> \o replaceWhiteSpaceRuns(trimStart(str))
         ELSE << Head(str) >> \o replaceWhiteSpaceRuns(Tail(str))

\* str.replace(/_/g, ' ')
replaceUnderscores(str) ==
    [ i \in 1..Len(str) |-> IF str[i] = "_" THEN " " ELSE str[i] ]

----------------------------------------------------------------------------
(* utils/cache.ts                                                          *)

KeyPrefix == << "l", "o", "c", "a", "t", "i", "o", "n", ":" >>

\* variant: the whitespace is replaced character by character
normalizeCacheKeyPerChar(location) ==
    KeyPrefix \o [ i \in 1..Len(location) |->
                     IF location[i] \in WhiteSpace THEN "_"
                     ELSE LowerChar(location[i]) ]

normalizeCacheKey(location) ==
    KeyPrefix \o replaceWhiteSpaceRuns(toLowerCase(location))

----------------------------------------------------------------------------
(* utils/validation.ts                                                     *)

MAX_LOCATION_LENGTH == 500
MIN_LAT == 0 - 9000
MAX_LAT == 9000
MIN_LON == 0 - 18000
MAX_LON == 18000

\* a thrown Error, as the value of the function that throws; no string
\* holds a character of more than one letter
Thrown == << "Error" >>

\* a location field that is missing from the body
Undefined == << "undefined" >>

\* validateAndSanitizeLocation: the sanitized string, or Thrown
validateAndSanitizeLocation(location) ==
    IF location = Undefined \/ location = << >> THEN Thrown
    ELSE LET trimmed == trim(location)
             sanitized == SelectSeq(trimmed, LAMBDA c : c \notin ControlChars)
         IN  IF trimmed = << >> THEN Thrown
             ELSE IF Len(trimmed) > MAX_LOCATION_LENGTH THEN Thrown
             ELSE IF sanitized = << >> THEN Thrown
             ELSE sanitized

\* validateLatitude / validateLongitude: TRUE when the value is returned,
\* FALSE when an Error is thrown (values in hundredths of a degree)
validateLatitude(lat) ==
    /\ lat # Absent
    /\ lat # NaN /\ lat # Infinity /\ lat # NegInfinity
    /\ ~(lat < MIN_LAT \/ lat > MAX_LAT)

validateLongitude(lon) ==
    /\ lon # Absent
    /\ lon # NaN /\ lon # Infinity /\ lon # NegInfinity
    /\ ~(lon < MIN_LON \/ lon > MAX_LON)

\* the decimal digits of a natural number
Digit == << "0", "1", "2", "3", "4", "5", "6", "7", "8", "9" >>

RECURSIVE Digits(_)
Digits(n) ==
    IF n < 10 THEN << Digit[n + 1] >>
    ELSE Digits(n \div 10) \o << Digit[(n % 10) + 1] >>

\* `${x}` of a number x given in hundredths: 3027 is "30.27", -9770 is
\* "-97.7", 3000 is "30"
NumberToString(x) ==
    LET a == Abs(x)
        frac == a % 100
    IN  (IF x < 0 THEN << "-" >> ELSE << >>)
        \o Digits(a \div 100)
        \o (IF frac = 0 THEN << >>
            ELSE << ".", Digit[(frac \div 10) + 1] >>
                 \o (IF frac % 10 = 0 THEN << >>
                     ELSE << Digit[(frac % 10) + 1] >>))

\* parseLocationRequest(body) when one of the validations throws
ThrownRequest == [ location |-> Thrown, apiLocation |-> Thrown ]

\* parseLocationRequest(body): [location, apiLocation], or ThrownRequest
parseLocationRequest(b) ==
    LET location == validateAndSanitizeLocation(b.location)
    IN  IF location = Thrown THEN ThrownRequest
        ELSE IF b.lat # Absent /\ b.lon # Absent
             THEN IF ~validateLatitude(b.lat) THEN ThrownRequest
                  ELSE IF ~validateLongitude(b.lon) THEN ThrownRequest
                  ELSE [ location |-> location,
                         apiLocation |-> NumberToString(b.lat) \o << "," >>
                                         \o NumberToString(b.lon) ]
             ELSE [ location |-> location, apiLocation |-> location ]

\* index after the longest match of -?\d+\.?\d* in str from index i, or 0
RECURSIVE SkipDigits(_, _)
SkipDigits(str, i) ==
    IF i <= Len(str) /\ (\E d \in 1..10 : Digit[d] = str[i])
    THEN SkipDigits(str, i + 1)
    ELSE i

MatchNumber(str, i) ==
    LET j == IF i <= Len(str) /\ str[i] = "-" THEN i + 1 ELSE i
        k == SkipDigits(str, j)
    IN  IF k = j THEN 0
        ELSE IF k <= Len(str) /\ str[k] = "." THEN SkipDigits(str, k + 1)
        ELSE k

RECURSIVE SkipWhiteSpace(_, _)
SkipWhiteSpace(str, i) ==
    IF i <= Len(str) /\ str[i] \in WhiteSpace THEN SkipWhiteSpace(str, i + 1)
    ELSE i

\* looksLikeCoordinates(str): /^-?\d+\.?\d*,\s*-?\d+\.?\d*$/ on str.trim()
looksLikeCoordinates(str) ==
    LET t == trim(str)
        a == MatchNumber(t, 1)
    IN  /\ Len(str) > 0
        /\ a # 0 /\ a <= Len(t) /\ t[a] = ","
        /\ MatchNumber(t, SkipWhiteSpace(t, a + 1)) = Len(t) + 1

----------------------------------------------------------------------------
(* The worker's surroundings: bindings, tokens, the providers' data.       *)

\* at most MaxReqs requests are in progress at a time
MaxReqs == 2

Reqs == 1..MaxReqs

DEFAULT_YEARS_OF_DATA == 2
DEFAULT_CACHE_TTL == 2592000
\* TOKEN_EXPIRY_HOURS * 60 * 60, in the clock's unit (seconds)
TOKEN_EXPIRY == 24 * 60 * 60

\* env: an unset string binding is "", an unset number binding is Absent
DefaultEnv ==
    [ SITE_PASSWORD |-> "site", VISUAL_CROSSING_API_KEY |-> "key",
      YEARS_OF_DATA |-> Absent, CACHE_TTL |-> Absent ]

\* parseInt(env.X || '') || DEFAULT
EnvNumber(x, default) == IF x = Absent \/ x = 0 THEN default ELSE x

\* the Authorization header of a request.  form: "none" (no header),
\* "basic" (not "Bearer ..."), "malformed" (parseToken returns null),
\* "token": btoa(`${expiresAt}:${signature}`) whose signature is the HMAC
\* of `${payload}` under the password key
NoHeader == [ form |-> "none", expiresAt |-> 0, payload |-> 0, key |-> "" ]

Token(expiresAt, payload, key) ==
    [ form |-> "token", expiresAt |-> expiresAt, payload |-> payload,
      key |-> key ]

\* generateToken(password, expiresAt)
generateToken(password, expiresAt) == Token(expiresAt, expiresAt, password)

\* verifyToken(token, password)
verifyToken(token, password) ==
    token.key = password /\ token.payload = token.expiresAt

\* parseToken(token): null when the text does not decode to two parts or
\* the first is not a number
parseToken(token) ==
    IF token.form = "malformed" \/ token.expiresAt = NaN THEN Absent
    ELSE token.expiresAt

\* verifyAuth(request, env).valid at time t
verifyAuth(token, e, t) ==
    IF token.form = "none" \/ token.form = "basic" THEN FALSE
    ELSE IF parseToken(token) = Absent THEN FALSE
    ELSE IF parseToken(token) < t THEN FALSE
    ELSE IF e.SITE_PASSWORD = "" THEN FALSE
    ELSE verifyToken(token, e.SITE_PASSWORD)

\* location strings
AustinTX == << "A", "u", "s", "t", "i", "n", ",", " ", "T", "X" >>
austinTxSpaced ==
    << " ", "a", "u", "s", "t", "i", "n", ",", " ", " ", "t", "x", " " >>
AustinResolved ==
    << "A", "u", "s", "t", "i", "n", ",", " ", "T", "X", ",", " ", "U", "S" >>
Blank == << " ", " " >>

\* the two Januaries and one September of the place's weather history
AustinDays ==
    << Day(<<2023, 1, 15>>, 72), Day(<<2024, 1, 15>>, 253),
       Day(<<2024, 9, 30>>, 253) >>

\* what the weather provider and Nominatim know about the searched place:
\* the reply's days, latitude, longitude and the place's name
Austin ==
    [ days |-> AustinDays, latitude |-> 3027, longitude |-> 0 - 9774,
      name |-> AustinResolved ]

\* a request slot: the request received (route, token, body), the position
\* of its handler, the handler's locals, the response, and what was done
\* on the request's behalf
NoBody ==
    [ location |-> Undefined, lat |-> Absent, lon |-> Absent, q |-> Undefined,
      password |-> "" ]

NoResponse == [ type |-> "none" ]

IdleRequest ==
    [ route |-> "none", token |-> NoHeader, body |-> NoBody, at |-> 0,
      pc |-> "idle",
      handler |-> FALSE, apiLocation |-> << >>, cacheKey |-> << >>,
      result |-> NoResponse, status |-> 0, response |-> NoResponse,
      deletedCount |-> 0,
      kvReads |-> 0, kvWrites |-> 0, kvDeletes |-> 0, fetches |-> 0 ]

EmptyCache == << >>

\* a token issued by handleLogin at time 0
LoginToken == generateToken(DefaultEnv.SITE_PASSWORD, 0 + TOKEN_EXPIRY)

\* the detail of the fetch-location-data event; none dispatched yet
NoDispatch == [ apiLocation |-> << >>, location |-> << >> ]

\* components/results/results.ts before any search: no request awaited,
\* currentApiLocation and the clear button's dataset.currentLocation unset;
\* the location input as constructed, the data store's cachedLocations
\* empty.  awaiting: the slots of the fetchAutocomplete calls not yet
\* returned; latest: the query of the last run of the search() callback
\* when it called fetchAutocomplete.  The login of instant 0 is stored:
\* token and tokenExpiry in localStorage, isAuthenticated in the auth
\* store, the main app shown; error is the ui store's error.  submits
\* counts the submits of the form
IdleUI ==
    [ pc |-> "ready", slot |-> 0, currentApiLocation |-> << >>,
      currentLocation |-> << >>, storedKey |-> << >>, data |-> NoResponse,
      refreshed |-> NoResponse,
      query |-> << >>, selectedApiLocation |-> << >>, suggestions |-> { },
      showDropdown |-> FALSE, debounceTimer |-> FALSE, awaiting |-> { },
      latest |-> Undefined, cachedLocations |-> { },
      dispatched |-> NoDispatch, submits |-> 0,
      token |-> LoginToken, tokenExpiry |-> TOKEN_EXPIRY,
      isAuthenticated |-> TRUE, view |-> "app", error |-> "" ]

\* no request has been received
NoTraffic ==
    /\ now = 0
    /\ env = DefaultEnv
    /\ world = Austin
    /\ kv = EmptyCache
    /\ req = [ r \in Reqs |-> IdleRequest ]
    /\ ui = IdleUI

----------------------------------------------------------------------------
(* routes/data.ts: handleDataRequest on a provider reply (days, latitude)  *)

Init ==
    /\ body \in Bodies
    /\ latitude \in Latitudes
    /\ days \in DaySeqs
    /\ weather = << >>
    /\ solar = << >>
    /\ locals = << >>
    /\ pc = "fetched"
    /\ NoTraffic

\* const weather = processWeatherData(weatherData.days)
ProcessWeatherData ==
    /\ pc = "fetched"
    /\ weather' = processWeatherData(days)
    /\ pc' = "weather"
    /\ UNCHANGED <<body, latitude, days, solar, locals>>
    /\ UNCHANGED srvVars

\* const solar = processSolarData(weatherData.days, weatherData.latitude)
ProcessSolarData ==
    /\ pc = "weather"
    /\ locals' = processSolarLocals(days, latitude)
    /\ solar' = processSolarData(locals', latitude)
    /\ pc' = "done"
    /\ UNCHANGED <<body, latitude, days, weather>>
    /\ UNCHANGED srvVars

Next == ProcessWeatherData \/ ProcessSolarData

Spec == Init /\ [][Next]_vars

----------------------------------------------------------------------------
(* The same pipeline on replies whose January records differ in tempmax    *)
(* and humidity: present, absent, NaN, infinite, negative, halfway values. *)

\* tempmax observations in tenths of a degree F; all are multiples of 0.5,
\* so the sums of the code's doubles are exact
TempCases == { 805, 800, 5, 0, 0 - 5, Absent, NaN, Infinity, NegInfinity }

WeatherDayRecords ==
    { [datetime |-> <<2024, 1, 15>>, tempmax |-> t, tempmin |-> 600,
       temp |-> 700, humidity |-> h, solarenergy |-> 72] :
          t \in TempCases, h \in { 500, Absent } }

WeatherDaySeqs == UNION { [1..n -> WeatherDayRecords] : n \in 0..MaxDays }

InitWeather ==
    /\ body = [fixedTiltDegrees |-> Absent]
    /\ latitude = 3027
    /\ days \in WeatherDaySeqs
    /\ weather = << >>
    /\ solar = << >>
    /\ locals = << >>
    /\ pc = "fetched"
    /\ NoTraffic

SpecWeather == InitWeather /\ [][Next]_vars

----------------------------------------------------------------------------
(* The worker serving requests: index.ts (router), routes/data.ts,         *)
(* routes/cache.ts, routes/autocomplete.ts over the SOLAR_CACHE namespace. *)

\* the core is not running
CoreIdle ==
    /\ body = [fixedTiltDegrees |-> Absent]
    /\ latitude = 0
    /\ days = << >>
    /\ weather = << >>
    /\ solar = << >>
    /\ locals = << >>
    /\ pc = "idle"

\* the places of the model: the reply is usable, carries a latitude or a
\* longitude outside the valid range, carries no latitude, or has no days
Worlds ==
    { Austin, [Austin EXCEPT !.latitude = 9500],
      [Austin EXCEPT !.longitude = 18500],
      [Austin EXCEPT !.latitude = Absent], [Austin EXCEPT !.days = << >>] }

\* processWeatherData(days) and processSolarData(days, latitude) of each
\* place's reply, computed once
Processed ==
    [ w \in Worlds |->
        IF w.latitude = Absent THEN [ weather |-> << >>, solar |-> << >> ]
        ELSE [ weather |-> processWeatherData(w.days),
               solar |-> processSolarData(processSolarLocals(w.days, w.latitude),
                                          w.latitude) ] ]

\* the routes a request can name; "GET /api/data" matches no route
DataRoute == "POST /api/data"
AutocompleteRoute == "GET /api/autocomplete"
ClearRoute == "POST /api/cache/clear"
ListRoute == "GET /api/cache/list"
Guarded == { DataRoute, AutocompleteRoute, ClearRoute, ListRoute }
Routes == Guarded \cup { "GET /api/health", "OPTIONS /api/data", "GET /api/data" }

\* SOLAR_CACHE.get / put / delete
\* variant: every read misses
KVHasNever(key) == FALSE

KVHas(key) == key \in DOMAIN kv

\* variant: a write does not replace an entry that exists
KVPutIfAbsent(key, value, expirationTtl) ==
    [ k \in DOMAIN kv \cup { key } |->
        IF k = key /\ key \notin DOMAIN kv
        THEN [ value |-> value, expiration |-> now + expirationTtl ]
        ELSE kv[k] ]

KVPut(key, value, expirationTtl) ==
    [ k \in DOMAIN kv \cup { key } |->
        IF k = key THEN [ value |-> value, expiration |-> now + expirationTtl ]
        ELSE kv[k] ]

\* variant: a delete empties the namespace
KVDeleteAll(keys) == EmptyCache

KVDelete(keys) == [ k \in DOMAIN kv \ keys |-> kv[k] ]

ErrorResponse == [ type |-> "error" ]

\* { ...stored, cached, yearsOfData }
DataResponse(stored, cached, years) ==
    [ type |-> "profile", location |-> stored.location,
      latitude |-> stored.latitude, longitude |-> stored.longitude,
      weather |-> stored.weather, solar |-> stored.solar,
      yearsOfData |-> years, cachedAt |-> stored.cachedAt, cached |-> cached ]

\* handleLogin on a JSON body: status and response
LoginRoute == "POST /api/login"

handleLogin(b) ==
    IF b.password = "" THEN [ status |-> 400, response |-> ErrorResponse ]
    ELSE IF env.SITE_PASSWORD = ""
         THEN [ status |-> 500, response |-> ErrorResponse ]
    ELSE IF b.password # env.SITE_PASSWORD
         THEN [ status |-> 401, response |-> ErrorResponse ]
    ELSE [ status |-> 200,
           response |->
               [ type |-> "login",
                 token |-> generateToken(env.SITE_PASSWORD, now + TOKEN_EXPIRY),
                 expiresAt |-> now + TOKEN_EXPIRY,
                 expiresIn |-> TOKEN_EXPIRY ] ]

\* the router on a request in slot q: the auth gate of the guarded routes,
\* then the handler up to its first cache or network operation
Routed(q, route, token, b) ==
    LET got == [ q EXCEPT !.route = route, !.token = token, !.body = b,
                          !.at = now ]
        started == [ got EXCEPT !.handler = TRUE ]
        parsed == parseLocationRequest(b)
        query == IF b.q = Undefined THEN Undefined ELSE trim(b.q)
        finish(g, status, response) ==
            [ g EXCEPT !.status = status, !.response = response, !.pc = "done" ]
    IN  IF route = "OPTIONS /api/data" THEN finish(got, 200, NoResponse)
        ELSE IF route = LoginRoute
             THEN finish(started, handleLogin(b).status, handleLogin(b).response)
        ELSE IF route \in Guarded /\ ~verifyAuth(token, env, now)
             THEN finish(got, 401, ErrorResponse)
        ELSE IF route = DataRoute
             THEN IF parsed = ThrownRequest THEN finish(started, 500, ErrorResponse)
                  ELSE [ started EXCEPT
                           !.apiLocation = parsed.apiLocation,
                           !.cacheKey = normalizeCacheKey(parsed.apiLocation),
                           !.pc = "get" ]
        ELSE IF route = AutocompleteRoute
             THEN IF query = Undefined \/ Len(query) < 2
                  THEN finish(started, 200,
                              [ type |-> "suggestions", suggestions |-> << >> ])
                  ELSE [ started EXCEPT !.pc = "search" ]
        ELSE IF route = ClearRoute THEN [ started EXCEPT !.pc = "clear" ]
        ELSE IF route = ListRoute THEN [ started EXCEPT !.pc = "list" ]
        ELSE IF route = "GET /api/health" THEN finish(got, 200, NoResponse)
        ELSE finish(got, 404, ErrorResponse)

\* a request arrives at the worker
Receive(r, route, token, b) ==
    /\ req[r].pc = "idle"
    /\ req' = [ req EXCEPT ![r] = Routed(req[r], route, token, b) ]
    /\ UNCHANGED <<now, env, world, kv, ui>>
    /\ UNCHANGED coreVars

\* handleDataRequest: await env.SOLAR_CACHE.get(cacheKey), and the return
\* on a hit or on a missing API key
CacheGet(r) ==
    /\ req[r].pc = "get"
    /\ LET q == [ req[r] EXCEPT !.kvReads = @ + 1 ]
           years == EnvNumber(env.YEARS_OF_DATA, DEFAULT_YEARS_OF_DATA)
       IN  req' = [ req EXCEPT ![r] =
             IF KVHas(q.cacheKey)
             THEN [ q EXCEPT !.status = 200, !.pc = "done",
                      !.response = DataResponse(kv[q.cacheKey].value, TRUE, years) ]
             ELSE IF env.VISUAL_CROSSING_API_KEY = ""
                  THEN [ q EXCEPT !.status = 500, !.pc = "done",
                           !.response = ErrorResponse ]
             ELSE [ q EXCEPT !.pc = "fetch" ] ]
    /\ UNCHANGED <<now, env, world, kv, ui>>
    /\ UNCHANGED coreVars

\* the provider's resolvedAddress: the query itself when it was coordinates
ProviderAddress(apiLocation) ==
    IF looksLikeCoordinates(apiLocation) THEN apiLocation ELSE world.name

\* handleDataRequest from fetchWeatherData to the return of the response;
\* the cache write is handed to ctx.waitUntil.  providerStatus is the status
\* of the provider's reply, reverseOk whether Nominatim's reverse lookup
\* answers with a display name
Fetch(r, providerStatus, reverseOk) ==
    /\ req[r].pc = "fetch"
    /\ LET q == [ req[r] EXCEPT !.fetches = @ + 1 ]
           years == EnvNumber(env.YEARS_OF_DATA, DEFAULT_YEARS_OF_DATA)
           address == ProviderAddress(q.apiLocation)
           resolvedAddress ==
               IF looksLikeCoordinates(address) /\ reverseOk THEN world.name
               ELSE address
           result ==
               [ type |-> "profile", location |-> resolvedAddress,
                 latitude |-> round(world.latitude * (EScale \div 100), 4),
                 longitude |-> round(world.longitude * (EScale \div 100), 4),
                 weather |-> Processed[world].weather,
                 solar |-> Processed[world].solar,
                 yearsOfData |-> years, cachedAt |-> now ]
       IN  req' = [ req EXCEPT ![r] =
             IF providerStatus # 200
                \/ Len(world.days) = 0
                \/ world.latitude = Absent \/ world.longitude = Absent
                \/ world.latitude = NaN \/ world.longitude = NaN
             THEN [ q EXCEPT !.status = 500, !.pc = "done",
                      !.response = ErrorResponse ]
             ELSE [ q EXCEPT !.result = result, !.status = 200, !.pc = "put",
                      !.response = DataResponse(result, FALSE, years) ] ]
    /\ UNCHANGED <<now, env, world, kv, ui>>
    /\ UNCHANGED coreVars

\* the write handed to ctx.waitUntil completes
CachePut(r) ==
    /\ req[r].pc = "put"
    /\ kv' = KVPut(req[r].cacheKey, req[r].result,
                   EnvNumber(env.CACHE_TTL, DEFAULT_CACHE_TTL))
    /\ req' = [ req EXCEPT ![r].pc = "done", ![r].kvWrites = @ + 1 ]
    /\ UNCHANGED <<now, env, world, ui>>
    /\ UNCHANGED coreVars

\* the keys SOLAR_CACHE.list({ prefix: 'location:' }) ranges over
HasPrefix(key) ==
    Len(key) >= Len(KeyPrefix) /\ SubSeq(key, 1, Len(KeyPrefix)) = KeyPrefix

Prefixed == { k \in DOMAIN kv : HasPrefix(k) }

\* body.location?.trim() is falsy: the request clears every location
ClearsAll(b) == b.location = Undefined \/ trim(b.location) = << >>

\* handleClearCache; without a location, when the first listing is complete
ClearCache(r) ==
    /\ req[r].pc = "clear"
    /\ LET b == req[r].body
           keys == IF ClearsAll(b) THEN Prefixed
                   ELSE { normalizeCacheKey(trim(b.location)) }
       IN  /\ kv' = KVDelete(keys)
           /\ req' = [ req EXCEPT
                         ![r].status = 200, ![r].pc = "done",
                         ![r].kvReads = @ + (IF ClearsAll(b) THEN 1 ELSE 0),
                         ![r].kvDeletes = @ + Cardinality(keys),
                         ![r].deletedCount = Cardinality(keys),
                         ![r].response =
                             [ type |-> "cleared", success |-> TRUE,
                               deletedCount |-> Cardinality(keys) ] ]
    /\ UNCHANGED <<now, env, world, ui>>
    /\ UNCHANGED coreVars

\* variant: the loop ends after its first page
ClearPageOnce(r, page) ==
    /\ req[r].pc = "clear"
    /\ ClearsAll(req[r].body)
    /\ page \subseteq Prefixed /\ page # { }
    /\ kv' = KVDelete(page)
    /\ req' = [ req EXCEPT
                  ![r].kvReads = @ + 1,
                  ![r].kvDeletes = @ + Cardinality(page),
                  ![r].deletedCount = @ + Cardinality(page),
                  ![r].status = 200, ![r].pc = "done",
                  ![r].response =
                      [ type |-> "cleared", success |-> TRUE,
                        deletedCount |-> Cardinality(page) ] ]
    /\ UNCHANGED <<now, env, world, ui>>
    /\ UNCHANGED coreVars

\* handleClearCache without a location, one iteration of its loop when the
\* listing is not complete: list returns the keys of page and a cursor, the
\* keys are deleted, the loop goes on
ClearPage(r, page) ==
    /\ req[r].pc \in { "clear", "clearing" }
    /\ ClearsAll(req[r].body)
    /\ page \subseteq Prefixed /\ page # { }
    /\ kv' = KVDelete(page)
    /\ req' = [ req EXCEPT
                  ![r].pc = "clearing",
                  ![r].kvReads = @ + 1,
                  ![r].kvDeletes = @ + Cardinality(page),
                  ![r].deletedCount = @ + Cardinality(page) ]
    /\ UNCHANGED <<now, env, world, ui>>
    /\ UNCHANGED coreVars

\* the iteration whose listing is complete, and the response
ClearLastPage(r) ==
    /\ req[r].pc = "clearing"
    /\ kv' = KVDelete(Prefixed)
    /\ req' = [ req EXCEPT
                  ![r].kvReads = @ + 1,
                  ![r].kvDeletes = @ + Cardinality(Prefixed),
                  ![r].deletedCount = @ + Cardinality(Prefixed),
                  ![r].status = 200, ![r].pc = "done",
                  ![r].response =
                      [ type |-> "cleared", success |-> TRUE,
                        deletedCount |->
                            req[r].deletedCount + Cardinality(Prefixed) ] ]
    /\ UNCHANGED <<now, env, world, ui>>
    /\ UNCHANGED coreVars

\* the entry of handleListCache for key, or none
ListEntry(key) ==
    LET data == kv[key].value
    IN  [ key |-> key, location |-> data.location,
          originalSearch |->
              replaceUnderscores(SubSeq(key, Len(KeyPrefix) + 1, Len(key))),
          latitude |-> data.latitude, longitude |-> data.longitude,
          cachedAt |-> data.cachedAt ]

Listed(key) ==
    LET data == kv[key].value
    IN  /\ data.location # << >>
        /\ data.latitude # Absent /\ data.longitude # Absent
        /\ ~looksLikeCoordinates(data.location)

\* handleListCache; the response's array is kept as the set of its entries
ListCache(r) ==
    /\ req[r].pc = "list"
    /\ req' = [ req EXCEPT
                  ![r].status = 200, ![r].pc = "done",
                  ![r].kvReads = @ + 1 + Cardinality(DOMAIN kv),
                  ![r].response =
                      [ type |-> "list",
                        locations |->
                            { ListEntry(k) : k \in { j \in DOMAIN kv : Listed(j) } } ] ]
    /\ UNCHANGED <<now, env, world, kv, ui>>
    /\ UNCHANGED coreVars

\* searchLocations(query): Nominatim's answer mapped to suggestions
Suggestions(searchOk) ==
    IF ~searchOk THEN << >>
    ELSE << [ display |-> world.name, value |-> world.name,
              apiLocation |->
                  IF world.latitude \notin { 0, Absent, NaN }
                     /\ world.longitude \notin { 0, Absent, NaN }
                  THEN NumberToString(world.latitude) \o << "," >>
                       \o NumberToString(world.longitude)
                  ELSE world.name,
              lat |-> world.latitude, lon |-> world.longitude ] >>

\* handleAutocompleteRequest from searchLocations on
Autocomplete(r, searchOk) ==
    /\ req[r].pc = "search"
    /\ req' = [ req EXCEPT
                  ![r].status = 200, ![r].pc = "done",
                  ![r].fetches = @ + 1,
                  ![r].response =
                      [ type |-> "suggestions",
                        suggestions |-> Suggestions(searchOk) ] ]
    /\ UNCHANGED <<now, env, world, kv, ui>>
    /\ UNCHANGED coreVars

\* the response has been delivered and the slot serves the next request
Release(r) ==
    /\ req[r].pc = "done"
    /\ req' = [ req EXCEPT ![r] = IdleRequest ]
    /\ UNCHANGED <<now, env, world, kv, ui>>
    /\ UNCHANGED coreVars

\* time passes to instant t; entries whose expiration has come are gone
Advance(t) ==
    /\ now < t
    /\ now' = t
    /\ kv' = [ k \in { j \in DOMAIN kv : kv[j].expiration > t } |-> kv[k] ]
    /\ UNCHANGED <<env, world, req, ui>>
    /\ UNCHANGED coreVars

----------------------------------------------------------------------------
(* Data requests for every short location string: the cache key.          *)

\* location strings have at most MaxLocLen characters
MaxLocLen == 4

KeyChars == { "A", "a", ",", " ", "\t" }

KeyStrings == UNION { [1..n -> KeyChars] : n \in 0..MaxLocLen }

InitKey == CoreIdle /\ NoTraffic

ReceiveLocation ==
    \E str \in KeyStrings :
        Receive(1, DataRoute, LoginToken, [ NoBody EXCEPT !.location = str ])

NextKey == ReceiveLocation

SpecKey == InitKey /\ [][NextKey]_vars

----------------------------------------------------------------------------
(* One data request with any body, against any of the places.             *)

\* location fields: usable, blank, empty, missing, a lone tab
BodyLocations ==
    { AustinTX, austinTxSpaced, Blank, << >>, Undefined, << "\t" >> }

\* lat/lon fields: missing, valid, out of range, infinite (1e999), NaN
BodyCoordinates ==
    { <<Absent, Absent>>, <<3027, 0 - 9774>>, <<9500, 0 - 9774>>,
      <<3027, 18500>>, <<Infinity, 0 - 9774>>, <<3027, NaN>>,
      <<9500, Absent>> }

DataBodies ==
    { [ NoBody EXCEPT !.location = l, !.lat = c[1], !.lon = c[2] ] :
          l \in BodyLocations, c \in BodyCoordinates }

\* the statuses of the provider's reply
ProviderStatuses == { 200, 429, 400 }

InitValidate ==
    /\ CoreIdle
    /\ now = 0
    /\ env \in { DefaultEnv, [DefaultEnv EXCEPT !.VISUAL_CROSSING_API_KEY = ""] }
    /\ world \in Worlds
    /\ kv = EmptyCache
    /\ req = [ r \in Reqs |-> IdleRequest ]
    /\ ui = IdleUI

ReceiveData == \E b \in DataBodies : Receive(1, DataRoute, LoginToken, b)

FetchFirst ==
    \E status \in ProviderStatuses, reverseOk \in BOOLEAN :
        Fetch(1, status, reverseOk)

NextValidate == ReceiveData \/ CacheGet(1) \/ FetchFirst \/ CachePut(1)

SpecValidate == InitValidate /\ [][NextValidate]_vars

----------------------------------------------------------------------------
(* Concurrent data and clear requests for one place, over time.           *)

\* the instants at which something happens: around the start and around
\* the expiry of an entry written at the start
Instants == { 0, 1, DEFAULT_CACHE_TTL, DEFAULT_CACHE_TTL + 1 }

\* searches by name in two spellings and by suggestion coordinates
SearchBodies ==
    { [ NoBody EXCEPT !.location = AustinTX ],
      [ NoBody EXCEPT !.location = austinTxSpaced ],
      [ NoBody EXCEPT !.location = AustinResolved,
                      !.lat = 3027, !.lon = 0 - 9774 ] }

\* clear one location, clear all
ClearBodies == { [ NoBody EXCEPT !.location = AustinTX ], NoBody }

InitData == CoreIdle /\ NoTraffic

\* requests take the slots in order
NextSlot(r) == \A q \in Reqs : q < r => req[q].pc # "idle"

ReceiveSearch(r) ==
    /\ NextSlot(r)
    /\ \E b \in SearchBodies : Receive(r, DataRoute, LoginToken, b)

ReceiveClear(r) ==
    /\ NextSlot(r)
    /\ \E b \in ClearBodies : Receive(r, ClearRoute, LoginToken, b)

FetchReply(r) ==
    \E status \in { 200, 429 }, reverseOk \in BOOLEAN :
        Fetch(r, status, reverseOk)

TimePasses == \E t \in Instants : Advance(t)

NextData ==
    \/ \E r \in Reqs :
          \/ ReceiveSearch(r)
          \/ ReceiveClear(r)
          \/ CacheGet(r)
          \/ FetchReply(r)
          \/ CachePut(r)
          \/ ClearCache(r)
    \/ TimePasses

SpecData == InitData /\ [][NextData]_vars

----------------------------------------------------------------------------
(* The frontend's results component driving the worker: search, display,  *)
(* clear-cache click, refetch.                                            *)

\* the apiLocation of a suggestion: `${lat},${lon}`
AustinCoordinates ==
    << "3", "0", ".", "2", "7", ",", "-", "9", "7", ".", "7", "4" >>

\* what the user submits: typed text, the resolved name typed in full, or a
\* suggestion picked from the dropdown
ApiLocations == { AustinTX, AustinResolved, AustinCoordinates }

\* the slot the browser's next fetch() is served in
FreeSlot(r) ==
    /\ req[r].pc = "idle"
    /\ \A q \in Reqs : q < r => req[q].pc # "idle"

\* fetch() with the stored token reaches the worker
Sent(r, route, b) ==
    [ req EXCEPT ![r] = Routed(req[r], route, ui.token, b) ]

\* uiStore.error after handleError on a failed call: fetchLocationData and
\* clearCache throw 'Authentication failed' on a 401, the error of the
\* response otherwise
ErrorShown(status) ==
    IF status = 401 THEN "Authentication failed" ELSE "Request failed"

\* the awaited fetch() has resolved: the handler has returned its response
\* (a write handed to ctx.waitUntil may still be pending)
Resolved == ui.slot \in Reqs /\ req[ui.slot].pc \in { "put", "done" }

\* the fetch-location-data listener up to the fetch() of fetchLocationData
Search(api) ==
    /\ ui.pc = "ready"
    /\ ui.token # NoHeader
    /\ \E r \in Reqs :
          /\ FreeSlot(r)
          /\ req' = Sent(r, DataRoute, [ NoBody EXCEPT !.location = api ])
          /\ ui' = [ ui EXCEPT !.pc = "data", !.slot = r,
                               !.currentApiLocation = api,
                               !.error = "",
                               !.refreshed = NoResponse ]
    /\ UNCHANGED <<now, env, world, kv>>
    /\ UNCHANGED coreVars

\* handleFetchData from the reply of fetchLocationData: the error branch,
\* or displayResults and, for a fresh result, the fetch() of
\* fetchCachedLocations.  storedKey records the key the worker served the
\* shown result under; after.refreshed the reply a clear-cache click's
\* refetch got
ShowData ==
    /\ ui.pc = "data" /\ Resolved
    /\ LET q == req[ui.slot]
           after == [ ui EXCEPT !.refreshed =
                        IF ui.refreshed = NoResponse THEN NoResponse
                        ELSE q.response ]
       IN  IF q.status # 200
           THEN /\ ui' = [ after EXCEPT !.pc = "ready", !.slot = 0,
                                        !.error = ErrorShown(q.status),
                                        !.data = NoResponse ]
                /\ UNCHANGED req
           ELSE LET shown == [ after EXCEPT
                                 !.data = q.response,
                                 !.currentLocation = q.response.location,
                                 !.storedKey = q.cacheKey ]
                IN  IF q.response.cached
                    THEN /\ ui' = [ shown EXCEPT !.pc = "ready", !.slot = 0 ]
                         /\ UNCHANGED req
                    ELSE \E r \in Reqs :
                           /\ FreeSlot(r)
                           /\ req' = Sent(r, ListRoute, NoBody)
                           /\ ui' = [ shown EXCEPT !.pc = "list", !.slot = r ]
    /\ UNCHANGED <<now, env, world, kv>>
    /\ UNCHANGED coreVars

\* the recent searches as the data store keeps them: display and
\* apiLocation of every listed entry (originalSearch is never empty for a
\* stored key); fetchCachedLocations gives no locations on another status
CachedLocationsOf(q) ==
    IF q.status # 200 THEN { }
    ELSE { [ display |-> e.location, apiLocation |-> e.originalSearch ] :
             e \in q.response.locations }

\* handleFetchData from the reply of fetchCachedLocations to its end
ShowList ==
    /\ ui.pc = "list" /\ Resolved
    /\ ui' = [ ui EXCEPT !.pc = "ready", !.slot = 0,
                         !.cachedLocations = CachedLocationsOf(req[ui.slot]) ]
    /\ UNCHANGED <<now, env, world, kv, req>>
    /\ UNCHANGED coreVars

\* handleClearCacheClick up to the fetch() of clearCache; the button has
\* the class show on a result loaded from the cache
ClearCacheClick ==
    /\ ui.pc = "ready"
    /\ ui.token # NoHeader
    /\ ui.data # NoResponse /\ ui.data.cached
    /\ ui.currentLocation # << >>
    /\ \E r \in Reqs :
          /\ FreeSlot(r)
          /\ req' = Sent(r, ClearRoute,
                         [ NoBody EXCEPT !.location = ui.currentLocation ])
          /\ ui' = [ ui EXCEPT !.pc = "clear", !.slot = r ]
    /\ UNCHANGED <<now, env, world, kv>>
    /\ UNCHANGED coreVars

\* handleClearCacheClick from the reply of clearCache to the fetch() of
\* fetchCachedLocations, or to its end when clearCache throws
Cleared ==
    /\ ui.pc = "clear" /\ Resolved
    /\ IF req[ui.slot].status # 200
       THEN /\ ui' = [ ui EXCEPT !.pc = "ready", !.slot = 0,
                                 !.error = ErrorShown(req[ui.slot].status) ]
            /\ UNCHANGED req
       ELSE \E r \in Reqs :
              /\ FreeSlot(r)
              /\ req' = Sent(r, ListRoute, NoBody)
              /\ ui' = [ ui EXCEPT !.pc = "relist", !.slot = r ]
    /\ UNCHANGED <<now, env, world, kv>>
    /\ UNCHANGED coreVars

\* handleClearCacheClick from the reply of fetchCachedLocations to the
\* fetch() of the refetch
Refetch ==
    /\ ui.pc = "relist" /\ Resolved
    /\ ui.currentApiLocation # << >>
    /\ \E r \in Reqs :
          /\ FreeSlot(r)
          /\ req' = Sent(r, DataRoute,
                         [ NoBody EXCEPT !.location = ui.currentApiLocation ])
          /\ ui' = [ ui EXCEPT !.pc = "data", !.slot = r,
                               !.error = "",
                               !.cachedLocations = CachedLocationsOf(req[ui.slot]),
                               !.refreshed = [ type |-> "awaited" ] ]
    /\ UNCHANGED <<now, env, world, kv>>
    /\ UNCHANGED coreVars

\* the connection of a delivered response is closed
Delivered(r) == r # ui.slot /\ r \notin ui.awaiting /\ Release(r)

InitClient == CoreIdle /\ NoTraffic

NextClient ==
    \/ \E api \in ApiLocations : Search(api)
    \/ ShowData
    \/ ShowList
    \/ ClearCacheClick
    \/ Cleared
    \/ Refetch
    \/ \E r \in Reqs :
          \/ CacheGet(r)
          \/ FetchReply(r)
          \/ CachePut(r)
          \/ ClearCache(r)
          \/ ListCache(r)
          \/ Delivered(r)

SpecClient == InitClient /\ [][NextClient]_vars

----------------------------------------------------------------------------
(* Requests with every kind of Authorization header on every route.       *)

\* the headers a request may carry: none, another scheme, a Bearer token
\* that does not decode to two parts, one whose first part is not a number,
\* the token of a login at instant 0, a token signed with another password,
\* a login token whose expiry was edited
AuthTokens ==
    { NoHeader,
      [ NoHeader EXCEPT !.form = "basic" ],
      [ NoHeader EXCEPT !.form = "malformed" ],
      Token(NaN, NaN, DefaultEnv.SITE_PASSWORD),
      LoginToken,
      generateToken("other", TOKEN_EXPIRY),
      Token(2 * TOKEN_EXPIRY, TOKEN_EXPIRY, DefaultEnv.SITE_PASSWORD) }

\* bodies and query strings
AuthBodies ==
    { NoBody,
      [ NoBody EXCEPT !.location = AustinTX ],
      [ NoBody EXCEPT !.q = << "A", "u", "s" >> ] }

\* the instants around the expiry of the login token
AuthInstants == { 0, TOKEN_EXPIRY - 1, TOKEN_EXPIRY, TOKEN_EXPIRY + 1 }

InitAuth ==
    /\ CoreIdle
    /\ now = 0
    /\ env \in { DefaultEnv, [ DefaultEnv EXCEPT !.SITE_PASSWORD = "" ] }
    /\ world = Austin
    /\ kv = EmptyCache
    /\ req = [ r \in Reqs |-> IdleRequest ]
    /\ ui = IdleUI

ReceiveAny ==
    \E route \in Routes, token \in AuthTokens, b \in AuthBodies :
        Receive(1, route, token, b)

SearchReply == \E searchOk \in BOOLEAN : Autocomplete(1, searchOk)

AuthTimePasses == \E t \in AuthInstants : Advance(t)

NextAuth ==
    \/ ReceiveAny
    \/ CacheGet(1)
    \/ FetchReply(1)
    \/ CachePut(1)
    \/ ClearCache(1)
    \/ ListCache(1)
    \/ SearchReply
    \/ Release(1)
    \/ AuthTimePasses

SpecAuth == InitAuth /\ [][NextAuth]_vars

----------------------------------------------------------------------------
(* Logins and the use of their tokens over time.                          *)

\* the instants around a login at 0 or 1 and around its token's expiry
TokenInstants ==
    { 0, 1, TOKEN_EXPIRY - 1, TOKEN_EXPIRY, TOKEN_EXPIRY + 1, TOKEN_EXPIRY + 2 }

Passwords == { "", "wrong", DefaultEnv.SITE_PASSWORD }

\* slot 1 serves the logins, slot 2 the requests to protected endpoints
LoginSlot == 1
UseSlot == 2

InitToken == CoreIdle /\ NoTraffic

ReceiveLogin ==
    \E password \in Passwords :
        Receive(LoginSlot, LoginRoute, NoHeader,
                [ NoBody EXCEPT !.password = password ])

\* the token of the last successful login
Issued == req[LoginSlot].status = 200 /\ req[LoginSlot].pc = "done"
IssuedToken == req[LoginSlot].response.token

\* the same token with the expiry in its first part pushed back by a day
Extended(token) == [ token EXCEPT !.expiresAt = @ + TOKEN_EXPIRY ]

\* a protected request carrying the issued token, as issued or edited
ReceiveWithToken ==
    /\ Issued
    /\ \E route \in { ListRoute, ClearRoute },
          token \in { IssuedToken, Extended(IssuedToken) } :
            Receive(UseSlot, route, token, NoBody)

TokenTimePasses == \E t \in TokenInstants : Advance(t)

NextToken ==
    \/ ReceiveLogin
    \/ ReceiveWithToken
    \/ ListCache(UseSlot)
    \/ ClearCache(UseSlot)
    \/ Release(LoginSlot)
    \/ Release(UseSlot)
    \/ TokenTimePasses

SpecToken == InitToken /\ [][NextToken]_vars

----------------------------------------------------------------------------
(* Every kind of request against a cache that holds entries.              *)

\* with and without a token
FrameTokens == { NoHeader, LoginToken }

\* no location, a search text, the resolved name
FrameBodies ==
    { NoBody,
      [ NoBody EXCEPT !.location = AustinTX ],
      [ NoBody EXCEPT !.location = AustinResolved ] }

InitFrame == CoreIdle /\ NoTraffic

ReceiveFrame ==
    \E route \in { DataRoute, ClearRoute, ListRoute },
       token \in FrameTokens, b \in FrameBodies :
        Receive(1, route, token, b)

\* from now on the provider's reply for the place has no days
ProviderLosesHistory ==
    /\ world.days # << >>
    /\ world' = [ world EXCEPT !.days = << >> ]
    /\ UNCHANGED <<now, env, kv, req, ui>>
    /\ UNCHANGED coreVars

NextFrame ==
    \/ ReceiveFrame
    \/ CacheGet(1)
    \/ FetchReply(1)
    \/ CachePut(1)
    \/ ClearCache(1)
    \/ ListCache(1)
    \/ Release(1)
    \/ ProviderLosesHistory
    \/ TimePasses

SpecFrame == InitFrame /\ [][NextFrame]_vars

----------------------------------------------------------------------------
(* Cache-clear requests, one at a time, on a populated namespace.         *)

\* a key of the namespace that is not a location's
OtherKey == << "o", "t", "h", "e", "r", ":", "x" >>

\* the keys earlier data requests stored entries under
StoredKeys ==
    { normalizeCacheKey(AustinTX), normalizeCacheKey(AustinResolved),
      normalizeCacheKey(AustinCoordinates), normalizeCacheKey(<< "T", "X" >>) }

\* the entry a data request for the place stored at instant 0
AustinEntry ==
    [ value |->
          [ type |-> "profile", location |-> AustinResolved,
            latitude |-> round(Austin.latitude * (EScale \div 100), 4),
            longitude |-> round(Austin.longitude * (EScale \div 100), 4),
            weather |-> Processed[Austin].weather,
            solar |-> Processed[Austin].solar,
            yearsOfData |-> DEFAULT_YEARS_OF_DATA, cachedAt |-> 0 ],
      expiration |-> DEFAULT_CACHE_TTL ]

\* the pages a listing may return
Pages == SUBSET Prefixed

InitClear ==
    /\ CoreIdle
    /\ now = 0
    /\ env = DefaultEnv
    /\ world = Austin
    /\ \E keys \in SUBSET StoredKeys :
          kv = [ k \in keys \cup { OtherKey } |-> AustinEntry ]
    /\ req = [ r \in Reqs |-> IdleRequest ]
    /\ ui = IdleUI

ReceiveClearOnly ==
    \E b \in ClearBodies \cup { [ NoBody EXCEPT !.location = Blank ] } :
        Receive(1, ClearRoute, LoginToken, b)

ClearSomePage == \E page \in Pages : ClearPage(1, page)

\* the steps of handleClearCache
ClearSteps == ClearCache(1) \/ ClearSomePage \/ ClearLastPage(1)

NextClear ==
    \/ ReceiveClearOnly
    \/ ClearCache(1)
    \/ ClearSomePage
    \/ ClearLastPage(1)
    \/ Release(1)

\* a handler that can take a step does so
SpecClear == InitClear /\ [][NextClear]_vars /\ WF_vars(ClearSteps)

----------------------------------------------------------------------------
(* A first search on an empty cache, the listing of recent searches, and  *)
(* the searches made by picking a listed entry.                           *)

\* typed locations have at most MaxTyped characters
MaxTyped == 3

TypedChars == { "a", "_", " " }

TypedStrings == UNION { [1..n -> TypedChars] : n \in 1..MaxTyped }

\* slot 1 serves the listings, slot 2 the data requests
ListSlot == 1
SearchSlot == 2

InitList == CoreIdle /\ NoTraffic

\* the user types a location and submits; the cache holds nothing yet
ReceiveTyped ==
    /\ kv = EmptyCache
    /\ \E str \in TypedStrings :
          Receive(SearchSlot, DataRoute, LoginToken,
                  [ NoBody EXCEPT !.location = str ])

ReceiveList == Receive(ListSlot, ListRoute, LoginToken, NoBody)

\* the listing the frontend holds
RecentSearches ==
    IF req[ListSlot].pc = "done" /\ req[ListSlot].status = 200
    THEN req[ListSlot].response.locations ELSE { }

\* the user picks a recent search: apiLocation is its originalSearch
ReceiveListed ==
    \E e \in RecentSearches :
        Receive(SearchSlot, DataRoute, LoginToken,
                [ NoBody EXCEPT !.location = e.originalSearch ])

FetchAnswered == \E reverseOk \in BOOLEAN : Fetch(SearchSlot, 200, reverseOk)

NextList ==
    \/ ReceiveTyped
    \/ ReceiveList
    \/ ReceiveListed
    \/ CacheGet(SearchSlot)
    \/ FetchAnswered
    \/ CachePut(SearchSlot)
    \/ ListCache(ListSlot)
    \/ Release(ListSlot)
    \/ Release(SearchSlot)

SpecList == InitList /\ [][NextList]_vars

----------------------------------------------------------------------------
(* Data requests while the worker's YEARS_OF_DATA setting is changed       *)
(* between deployments.                                                   *)

\* the values of the setting: unset, one year, three years
YearsSettings == { Absent, 1, 3 }

YearsSlot == 1

InitYears ==
    /\ CoreIdle
    /\ now = 0
    /\ env \in { [ DefaultEnv EXCEPT !.YEARS_OF_DATA = y ] : y \in YearsSettings }
    /\ world = Austin
    /\ kv = EmptyCache
    /\ req = [ r \in Reqs |-> IdleRequest ]
    /\ ui = IdleUI

\* the worker is deployed again with another YEARS_OF_DATA; the KV
\* namespace is kept
Redeploy ==
    /\ \E y \in YearsSettings :
          /\ y # env.YEARS_OF_DATA
          /\ env' = [ env EXCEPT !.YEARS_OF_DATA = y ]
    /\ UNCHANGED <<now, world, kv, req, ui>>
    /\ UNCHANGED coreVars

ReceiveYears ==
    \E b \in SearchBodies : Receive(YearsSlot, DataRoute, LoginToken, b)

NextYears ==
    \/ ReceiveYears
    \/ CacheGet(YearsSlot)
    \/ FetchReply(YearsSlot)
    \/ CachePut(YearsSlot)
    \/ Release(YearsSlot)
    \/ Redeploy

SpecYears == InitYears /\ [][NextYears]_vars

----------------------------------------------------------------------------
(* components/search/locationInput.ts: typing, the debounced search(),     *)
(* the autocomplete responses, selectSuggestion and handleSubmit.          *)

\* the form is submitted at most MaxSubmits times
MaxSubmits == 1

\* what the user types into the box
Texts == { << >>, << "A" >>, << "A", "u" >>, << "D", "a" >> }

\* str is the beginning of name
IsPrefix(str, name) ==
    Len(str) <= Len(name) /\ SubSeq(name, 1, Len(str)) = str

\* Nominatim finds the place for the beginnings of its name
Finds(query) == IsPrefix(trim(query), world.name)

\* handleAutocompleteRequest answered by Nominatim
NominatimReply(r) ==
    /\ req[r].pc = "search"
    /\ Autocomplete(r, Finds(req[r].body.q))

\* display and apiLocation of the suggestions of a response
Offered(suggestions) ==
    { [ display |-> suggestions[i].display,
        apiLocation |-> suggestions[i].apiLocation ] :
        i \in 1..Len(suggestions) }

\* x-model="query" and @input="search()": the text in the box changes and
\* search() restarts the debounce timer
Type(text) ==
    /\ text # ui.query
    /\ ui' = [ ui EXCEPT !.query = text, !.debounceTimer = TRUE ]
    /\ UNCHANGED <<now, env, world, kv, req>>
    /\ UNCHANGED coreVars

\* the debounce timer's callback up to the fetch() of fetchAutocomplete, or
\* to its end for an empty or one-character query
DebounceFires ==
    /\ ui.debounceTimer
    /\ IF trim(ui.query) = << >>
       THEN /\ ui' = [ ui EXCEPT !.debounceTimer = FALSE,
                                 !.latest = Undefined,
                                 !.suggestions = ui.cachedLocations,
                                 !.showDropdown = ui.cachedLocations # { } ]
            /\ UNCHANGED req
       ELSE IF Len(ui.query) < 2
       THEN /\ ui' = [ ui EXCEPT !.debounceTimer = FALSE,
                                 !.latest = Undefined,
                                 !.suggestions = { },
                                 !.showDropdown = FALSE ]
            /\ UNCHANGED req
       ELSE \E r \in Reqs :
              /\ FreeSlot(r)
              /\ req' = Sent(r, AutocompleteRoute,
                             [ NoBody EXCEPT !.q = ui.query ])
              /\ ui' = [ ui EXCEPT !.debounceTimer = FALSE,
                                   !.latest = ui.query,
                                   !.awaiting = @ \cup { r } ]
    /\ UNCHANGED <<now, env, world, kv>>
    /\ UNCHANGED coreVars

\* the search() callback from the return of fetchAutocomplete; on a 401 or
\* an error fetchAutocomplete returns no suggestions.  The response is read
\* and its connection closed
Arrive(r) ==
    /\ r \in ui.awaiting
    /\ req[r].pc = "done"
    /\ LET suggestions ==
               IF req[r].status = 200
               THEN Offered(req[r].response.suggestions) ELSE { }
       IN  ui' = [ ui EXCEPT !.awaiting = @ \ { r },
                            !.suggestions = suggestions,
                            !.showDropdown = suggestions # { } ]
    /\ req' = [ req EXCEPT ![r] = IdleRequest ]
    /\ UNCHANGED <<now, env, world, kv>>
    /\ UNCHANGED coreVars

\* selectSuggestion on a suggestion of the open dropdown
SelectSuggestion(suggestion) ==
    /\ ui.showDropdown
    /\ suggestion \in ui.suggestions
    /\ ui' = [ ui EXCEPT !.query = suggestion.display,
                         !.selectedApiLocation = suggestion.apiLocation,
                         !.showDropdown = FALSE ]
    /\ UNCHANGED <<now, env, world, kv, req>>
    /\ UNCHANGED coreVars

\* handleSubmit, and the fetch-location-data listener it dispatches to, up
\* to the fetch() of fetchLocationData
HandleSubmit ==
    /\ ui.pc = "ready"
    /\ ui.token # NoHeader
    /\ ui.submits < MaxSubmits
    /\ trim(ui.query) # << >>
    /\ LET location == trim(ui.query)
           apiLocation == IF ui.selectedApiLocation # << >>
                          THEN ui.selectedApiLocation ELSE location
       IN  \E r \in Reqs :
             /\ FreeSlot(r)
             /\ req' = Sent(r, DataRoute,
                            [ NoBody EXCEPT !.location = apiLocation ])
             /\ ui' = [ ui EXCEPT
                          !.dispatched = [ apiLocation |-> apiLocation,
                                           location |-> location ],
                          !.submits = @ + 1,
                          !.pc = "data", !.slot = r,
                          !.currentApiLocation = apiLocation,
                          !.error = "",
                          !.refreshed = NoResponse ]
    /\ UNCHANGED <<now, env, world, kv>>
    /\ UNCHANGED coreVars

InitInput == CoreIdle /\ NoTraffic

FetchOk(r) == Fetch(r, 200, TRUE)

NextInput ==
    \/ \E text \in Texts : Type(text)
    \/ DebounceFires
    \/ \E s \in ui.suggestions : SelectSuggestion(s)
    \/ HandleSubmit
    \/ ShowData
    \/ ShowList
    \/ \E r \in Reqs :
          \/ NominatimReply(r)
          \/ Arrive(r)
          \/ CacheGet(r)
          \/ FetchOk(r)
          \/ CachePut(r)
          \/ ListCache(r)
          \/ Delivered(r)

SpecInput == InitInput /\ [][NextInput]_vars

----------------------------------------------------------------------------
(* The main app in use while the stored token runs out: data, cache       *)
(* clear, cache list and autocomplete calls carry the token of the login  *)
(* of instant 0.                                                          *)

InitSession == CoreIdle /\ NoTraffic

SessionSearch == Search(AustinTX)

TypeQuery == Type(<< "A", "u" >>)

SessionTimePasses == \E t \in AuthInstants : Advance(t)

\* what the worker and the awaiting callbacks of the client do by themselves
SessionSteps ==
    \/ ShowData
    \/ ShowList
    \/ Cleared
    \/ Refetch
    \/ DebounceFires
    \/ \E r \in Reqs :
          \/ NominatimReply(r)
          \/ Arrive(r)
          \/ CacheGet(r)
          \/ FetchOk(r)
          \/ CachePut(r)
          \/ ClearCache(r)
          \/ ListCache(r)
          \/ Delivered(r)

NextSession ==
    \/ SessionSearch
    \/ ClearCacheClick
    \/ TypeQuery
    \/ SessionSteps
    \/ SessionTimePasses

SpecSession == InitSession /\ [][NextSession]_vars /\ WF_vars(SessionSteps)

----------------------------------------------------------------------------
(* Properties.  Done: both arrays have been computed.                      *)

Done == pc = "done"

MonthIx == 1..12

\* the nearest whole number of degrees to x hundredths (x >= 0), a half
\* going up
NearestDegree(x) ==
    CHOOSE t \in 0..200 : 100 * t - 50 <= x /\ x < 100 * t + 50

\* |latitude - declination| for month i, hundredths of a degree
Offset(i) == Abs(latitude - SOLAR_DECLINATIONS[i])

\* C1: for every latitude, month and horizontal PSH >= 0 the emitted
\* (2-decimal) values satisfy monthlyOptimal.psh >= yearlyFixed.psh >=
\* flat.psh.
PshOrdering ==
    Done =>
        \A i \in MonthIx :
            /\ solar[i].monthlyOptimal.psh >= solar[i].yearlyFixed.psh
            /\ solar[i].yearlyFixed.psh >= solar[i].flat.psh

\* a month where the three values are strictly ordered
PshOrderingWitness ==
    /\ Done
    /\ \E i \in MonthIx :
          /\ solar[i].flat.psh > 0
          /\ solar[i].monthlyOptimal.psh > solar[i].yearlyFixed.psh
          /\ solar[i].yearlyFixed.psh > solar[i].flat.psh

\* C2: calculateMonthlyOptimalTilt returns
\* clamp(round(|latitude - declination[month]|), 0, 90), an integer in 0..90.
OptimalTiltFormula ==
    Done =>
        \A i \in MonthIx :
            /\ locals[i].monthlyTilt \in 0..90
            /\ locals[i].monthlyTilt =
                  (IF NearestDegree(Offset(i)) > 90 THEN 90
                   ELSE NearestDegree(Offset(i)))

\* a month whose rounded offset exceeds 90 and is reported as 90, next to
\* one that is reported unclamped
OptimalTiltWitness ==
    /\ Done
    /\ \E i, j \in MonthIx :
          /\ NearestDegree(Offset(i)) > 90
          /\ locals[i].monthlyTilt = 90
          /\ locals[j].monthlyTilt = NearestDegree(Offset(j))
          /\ locals[j].monthlyTilt < 90

\* C3: the monthly-optimal direction is "N" exactly when
\* declination[month] > latitude and "S" otherwise (also when they are
\* equal); latitude 30.27 in June gives the tilt string "7° S".
DirectionRule ==
    Done =>
        /\ \A i \in MonthIx :
              /\ locals[i].monthlyDirection =
                    (IF SOLAR_DECLINATIONS[i] > latitude THEN "N" ELSE "S")
              /\ solar[i].monthlyOptimal.tilt =
                    ToString(locals[i].monthlyTilt) \o "° "
                        \o locals[i].monthlyDirection
        /\ latitude = 3027 => solar[6].monthlyOptimal.tilt = "7° S"

\* the concrete scenario, and a site lying on a month's declination
DirectionWitness ==
    /\ Done
    /\ \/ latitude = 3027 /\ solar[6].monthlyOptimal.tilt = "7° S"
       \/ \E i \in MonthIx :
             /\ latitude = SOLAR_DECLINATIONS[i]
             /\ solar[i].monthlyOptimal.tilt = "0° S"

\* the formula of the gain model for a tilt t (hundredths of a degree):
\* clamp(minGain + (maxGain - minGain) * (1 - (90 - t)/90), minGain, maxGain)
GainForTilt(t) ==
    LET lo == getLatitudeGainRange(latitude).minGain
        hi == getLatitudeGainRange(latitude).maxGain
        elevationFactor == Scale - ElevationRatio(9000 - t)
        g == lo + MulFix(hi - lo, elevationFactor)
    IN  IF g < lo THEN lo ELSE IF g > hi THEN hi ELSE g

\* C4 as stated: the month's maximum gain is the formula applied to the
\* step-1 tilt, the value rounded to an integer and clamped to 0..90.
MaxGainFromReportedTilt ==
    Done =>
        \A i \in MonthIx :
            locals[i].monthlyTiltGain = GainForTilt(100 * locals[i].monthlyTilt)

\* C4 amended: the month's maximum gain is the formula applied to the
\* unrounded, unclamped |latitude - declination|.
MaxGainFromOffset ==
    Done =>
        \A i \in MonthIx : locals[i].monthlyTiltGain = GainForTilt(Offset(i))

\* a month whose offset is not a whole number of degrees, where the two
\* readings differ
MaxGainWitness ==
    /\ Done
    /\ \E i \in MonthIx :
          /\ Offset(i) # 100 * locals[i].monthlyTilt
          /\ locals[i].monthlyTiltGain = GainForTilt(Offset(i))
          /\ locals[i].monthlyTiltGain # GainForTilt(100 * locals[i].monthlyTilt)

\* C5 as stated: whenever the fixed tilt equals the month's reported
\* optimal tilt, the fixed-tilt gain equals the month's maximum gain and
\* yearlyFixed PSH equals monthlyOptimal PSH.
FixedAtReportedTilt ==
    Done =>
        \A i \in MonthIx :
            locals[i].fixedTilt = locals[i].monthlyTilt =>
                /\ locals[i].fixedTiltGain = locals[i].monthlyTiltGain
                /\ locals[i].fixedPSH = locals[i].monthlyPSH

\* C5 amended: whenever the fixed tilt equals the month's unrounded
\* |latitude - declination|, the fixed-tilt gain equals the month's maximum
\* gain and yearlyFixed PSH equals monthlyOptimal PSH.
FixedAtOffset ==
    Done =>
        \A i \in MonthIx :
            100 * locals[i].fixedTilt = Offset(i) =>
                /\ locals[i].fixedTiltGain = locals[i].monthlyTiltGain
                /\ locals[i].fixedPSH = locals[i].monthlyPSH
                /\ solar[i].yearlyFixed.psh = solar[i].monthlyOptimal.psh

\* a month with sun whose offset is the (non-zero) fixed tilt
FixedAtOffsetWitness ==
    /\ Done
    /\ \E i \in MonthIx :
          /\ 100 * locals[i].fixedTilt = Offset(i)
          /\ locals[i].fixedTilt > 0
          /\ locals[i].flatPSH > 0
          /\ locals[i].fixedTiltGain = locals[i].monthlyTiltGain
          /\ solar[i].yearlyFixed.psh = solar[i].monthlyOptimal.psh

\* C6: when the fixed tilt is 0 (|latitude| rounds to 0), the yearly-fixed
\* PSH equals the flat PSH exactly, for every month and horizontal PSH.
ZeroTiltIsFlat ==
    Done =>
        \A i \in MonthIx :
            locals[i].fixedTilt = 0 =>
                /\ locals[i].fixedPSH = locals[i].flatPSH
                /\ solar[i].yearlyFixed.psh = solar[i].flat.psh

\* a site off the equator with fixed tilt 0 and a month with sun
ZeroTiltWitness ==
    /\ Done
    /\ latitude # 0
    /\ \E i \in MonthIx :
          /\ locals[i].fixedTilt = 0
          /\ solar[i].flat.psh > 0
          /\ solar[i].yearlyFixed.psh = solar[i].flat.psh
          /\ solar[i].monthlyOptimal.psh > solar[i].flat.psh

\* C7: the gain pair by |latitude|, upper-exclusive: < 20 (1.03, 1.15);
\* 20 <= . < 45 (1.05, 1.40); 45 <= . < 60 (1.15, 1.80); >= 60 (1.20, 2.20).
GainBands ==
    Done =>
        \A i \in MonthIx :
            locals[i].range =
                (IF Abs(latitude) < 2000
                 THEN [minGain |-> 103000000, maxGain |-> 115000000]
                 ELSE IF 2000 <= Abs(latitude) /\ Abs(latitude) < 4500
                 THEN [minGain |-> 105000000, maxGain |-> 140000000]
                 ELSE IF 4500 <= Abs(latitude) /\ Abs(latitude) < 6000
                 THEN [minGain |-> 115000000, maxGain |-> 180000000]
                 ELSE [minGain |-> 120000000, maxGain |-> 220000000])

\* a site exactly on a band edge, in the higher band
GainBandsWitness ==
    /\ Done
    /\ \/ Abs(latitude) = 2000 /\ locals[1].range.maxGain = 140000000
       \/ Abs(latitude) = 4500 /\ locals[1].range.maxGain = 180000000
       \/ Abs(latitude) = 6000 /\ locals[1].range.maxGain = 220000000

\* C8: no error and every result in range, also where
\* |latitude - declination| exceeds 90: tilt in [0, 90], the month's maximum
\* gain in [minGain, maxGain] of the band, the fixed-tilt gain in
\* [1, month's maximum gain].
ClampedResults ==
    Done =>
        \A i \in MonthIx :
            /\ locals[i].monthlyTilt >= 0 /\ locals[i].monthlyTilt <= 90
            /\ locals[i].monthlyTiltGain >= getLatitudeGainRange(latitude).minGain
            /\ locals[i].monthlyTiltGain <= getLatitudeGainRange(latitude).maxGain
            /\ locals[i].fixedTiltGain # NaN
            /\ locals[i].fixedTiltGain >= Scale
            /\ locals[i].fixedTiltGain <= locals[i].monthlyTiltGain
            /\ locals[i].monthlyPSH # NaN /\ locals[i].fixedPSH # NaN

\* a month whose offset exceeds 90 degrees: the gain sits on the band's
\* maximum and the fixed-tilt gain strictly inside its range
ClampedResultsWitness ==
    /\ Done
    /\ \E i \in MonthIx :
          /\ Offset(i) > 9000
          /\ locals[i].monthlyTiltGain = getLatitudeGainRange(latitude).maxGain
          /\ locals[i].fixedTiltGain > Scale
          /\ locals[i].fixedTiltGain < locals[i].monthlyTiltGain

\* C9 as stated: the yearly-fixed tilt is the fixedTiltDegrees of the input
\* when it carries one, and round(|latitude|) when it does not.
FixedTiltFromInput ==
    Done =>
        \A i \in MonthIx :
            locals[i].fixedTilt =
                (IF body.fixedTiltDegrees # Absent THEN body.fixedTiltDegrees
                 ELSE NearestDegree(Abs(latitude)))

\* C9 amended: the yearly-fixed scenario uses one tilt angle, unchanged
\* across the 12 months: round(|latitude|), whether or not the input
\* carries a fixedTiltDegrees.
FixedTiltFromLatitude ==
    Done =>
        \A i \in MonthIx :
            /\ locals[i].fixedTilt = NearestDegree(Abs(latitude))
            /\ solar[i].yearlyFixed.tilt =
                  ToString(NearestDegree(Abs(latitude))) \o "° "
                      \o (IF latitude >= 0 THEN "S" ELSE "N")
            /\ solar[i].yearlyFixed.tilt = solar[1].yearlyFixed.tilt

\* an input carrying a fixedTiltDegrees other than round(|latitude|), the
\* latter rounded up from a half
FixedTiltWitness ==
    /\ Done
    /\ body.fixedTiltDegrees # Absent
    /\ body.fixedTiltDegrees # NearestDegree(Abs(latitude))
    /\ Abs(latitude) % 100 >= 50
    /\ solar[12].yearlyFixed.tilt =
          ToString((Abs(latitude) \div 100) + 1) \o "° "
              \o (IF latitude >= 0 THEN "S" ELSE "N")

\* C10: for every sequence of daily records processWeatherData and
\* processSolarData each return exactly 12 entries, entry i being calendar
\* month i (Jan..Dec) in order.
TwelveMonths ==
    LET names == << "Jan", "Feb", "Mar", "Apr", "May", "Jun",
                    "Jul", "Aug", "Sep", "Oct", "Nov", "Dec" >>
    IN  /\ pc \in {"weather", "done"} =>
              /\ DOMAIN weather = 1..12
              /\ \A i \in 1..12 : weather[i].month = names[i]
        /\ Done =>
              /\ DOMAIN solar = 1..12
              /\ \A i \in 1..12 : solar[i].month = names[i]

\* both arrays computed from no records at all
TwelveMonthsWitness ==
    /\ Done
    /\ days = << >>
    /\ Len(weather) = 12 /\ Len(solar) = 12
    /\ solar[12].month = "Dec" /\ weather[12].month = "Dec"

----------------------------------------------------------------------------
\* month index i received no daily record of the reply
NoRecordOf(i) ==
    \A j \in 1..Len(days) : getMonth(days[j].datetime) # i - 1

\* C11: a month that receives no daily record is still emitted: its highF,
\* lowF, meanF and humidity are 0 and its three peak-sun-hour values are 0
\* (the number 0, not NaN), and both arrays still have their 12 entries.
EmptyMonthIsZero ==
    Done =>
        /\ Len(weather) = 12 /\ Len(solar) = 12
        /\ \A i \in MonthIx :
              NoRecordOf(i) =>
                  /\ weather[i].month = MONTHS[i] /\ solar[i].month = MONTHS[i]
                  /\ weather[i].highF = 0 /\ weather[i].lowF = 0
                  /\ weather[i].meanF = 0 /\ weather[i].humidity = 0
                  /\ solar[i].flat.psh = 0
                  /\ solar[i].monthlyOptimal.psh = 0
                  /\ solar[i].yearlyFixed.psh = 0
                  /\ locals[i].flatPSH = 0 /\ locals[i].monthlyPSH = 0

\* a reply with records in January only: September is empty while January
\* carries non-zero values
EmptyMonthWitness ==
    /\ Done /\ Len(days) > 0
    /\ NoRecordOf(9) /\ ~NoRecordOf(1)
    /\ weather[1].highF > 0 /\ solar[1].flat.psh > 0
    /\ weather[9].highF = 0 /\ solar[9].monthlyOptimal.psh = 0

----------------------------------------------------------------------------
\* the field of a daily record behind each field of a monthly summary
WeatherFields ==
    { <<"highF", "tempmax">>, <<"lowF", "tempmin">>, <<"meanF", "temp">>,
      <<"humidity", "humidity">> }

\* the records of month index i in which field key is present and finite
FiniteSamples(i, key) ==
    SelectSeq(DaysOfMonth(days, i - 1), LAMBDA day : IsFinite(day[key]))

\* e (tenths) is the mean of the samples, to the nearest tenth
NearestTenthOfMean(e, samples, key) ==
    /\ IsFinite(e)
    /\ 2 * Abs(e * Len(samples) - SumKey(samples, key)) <= Len(samples)

\* C12: every field of every month is the mean over the samples in which
\* the field is present and finite; absent, NaN and infinite samples add
\* neither to the sum nor to the count, while their other fields count.
MeanOverFiniteSamples ==
    pc # "fetched" =>
        \A i \in MonthIx : \A f \in WeatherFields :
            LET samples == FiniteSamples(i, f[2])
            IN  IF Len(samples) = 0 THEN weather[i][f[1]] = 0
                ELSE NearestTenthOfMean(weather[i][f[1]], samples, f[2])

----------------------------------------------------------------------------
\* the finite means handed to round(.., 1) by processWeatherData, at EScale
RoundedMeans ==
    { <<avg(DaysOfMonth(days, i - 1), f[2]), weather[i][f[1]]>> :
          i \in MonthIx, f \in WeatherFields }

Tenth == EScale \div 10

\* C13 as stated: round(x, 1) is the nearest tenth and a value halfway
\* between two tenths goes to the tenth of larger magnitude
\* (0.25 -> 0.3, -0.25 -> -0.3).
RoundsHalfAwayFromZero ==
    pc # "fetched" =>
        \A p \in RoundedMeans :
            IsFinite(p[1]) =>
                LET m == Abs(p[2])
                IN  /\ (p[1] < 0 => p[2] <= 0) /\ (p[1] > 0 => p[2] >= 0)
                    /\ 2 * m * Tenth <= 2 * Abs(p[1]) + Tenth
                    /\ 2 * Abs(p[1]) + Tenth < 2 * (m + 1) * Tenth

\* C13, amended: round(x, 1) is the nearest tenth and a value halfway
\* between two tenths goes to the greater tenth, toward +infinity
\* (0.25 -> 0.3, -0.25 -> -0.2).
RoundsHalfTowardPlusInfinity ==
    pc # "fetched" =>
        \A p \in RoundedMeans :
            IsFinite(p[1]) =>
                /\ 2 * p[2] * Tenth <= 2 * p[1] + Tenth
                /\ 2 * p[1] + Tenth < 2 * (p[2] + 1) * Tenth

\* January's mean high is exactly -0.25 (samples -0.5 and 0.0) and is
\* emitted as -0.2
RoundsHalfWitness ==
    /\ pc # "fetched"
    /\ avg(DaysOfMonth(days, 0), "tempmax") = 0 - (Tenth \div 4) * 10
    /\ weather[1].highF = 0 - 2

\* C14: rounding is idempotent: rounding an emitted 1-decimal value to 1
\* decimal again gives the same value, round(round(x, 1), 1) = round(x, 1).
RoundIdempotent ==
    pc # "fetched" =>
        \A p \in RoundedMeans :
            LET once == round(p[1], 1)
                again == round(IF IsFinite(once) THEN once * Tenth ELSE once, 1)
            IN  once = p[2] /\ again = once

\* a mean that is not a whole tenth (80.25) has been rounded (to 80.3) and
\* a second rounding leaves 80.3
RoundIdempotentWitness ==
    /\ pc # "fetched"
    /\ \E p \in RoundedMeans :
          /\ IsFinite(p[1]) /\ p[1] % Tenth # 0 /\ p[2] = 803
          /\ round(p[2] * Tenth, 1) = 803

----------------------------------------------------------------------------
\* the lowercased words of str joined by "_": str without its leading and
\* trailing whitespace, each inner whitespace run replaced by one "_"
RECURSIVE JoinWords(_, _, _)
JoinWords(str, started, pending) ==
    IF Len(str) = 0 THEN << >>
    ELSE IF Head(str) \in WhiteSpace
         THEN JoinWords(Tail(str), started, started)
         ELSE (IF pending THEN << "_" >> ELSE << >>)
              \o << LowerChar(Head(str)) >>
              \o JoinWords(Tail(str), TRUE, FALSE)

\* the key the worker derives for location string str
KeyOf(str) == normalizeCacheKey(validateAndSanitizeLocation(str))

\* str with other letter case, with whitespace around it, with every
\* whitespace character doubled
Respelled(str) ==
    { toLowerCase(str), << " " >> \o str, str \o << " ", " " >>,
      [ i \in 1..(2 * Len(str)) |-> str[(i + 1) \div 2] ] }

\* only the characters that differ between a string and its respellings
OnlyCaseAndSpace(str, other) ==
    JoinWords(str, FALSE, FALSE) = JoinWords(other, FALSE, FALSE)

KeyFormed(str, key) ==
    /\ key = KeyPrefix \o JoinWords(str, FALSE, FALSE)
    /\ \A other \in Respelled(str) :
          OnlyCaseAndSpace(str, other) => KeyOf(other) = key

----------------------------------------------------------------------------
\* x is a finite number within [lo, hi]
FiniteWithin(x, lo, hi) == IsFinite(x) /\ lo <= x /\ x <= hi

ValidCoordinates(lat, lon) ==
    FiniteWithin(lat, 0 - 9000, 9000) /\ FiniteWithin(lon, 0 - 18000, 18000)

\* the location of the body is missing, empty or blank
BlankLocation(b) ==
    \/ b.location = Undefined
    \/ \A i \in 1..Len(b.location) : b.location[i] \in WhiteSpace

\* the body names coordinates (both lat and lon) and they are not valid
BadBodyCoordinates(b) ==
    b.lat # Absent /\ b.lon # Absent /\ ~ValidCoordinates(b.lat, b.lon)

\* request r asked, or is asking, the provider, whose reply carries
\* coordinates that are not valid
BadProviderCoordinates(r) ==
    req[r].fetches > 0 /\ ~ValidCoordinates(world.latitude, world.longitude)

\* request r has not produced a profile and has not written the cache
Rejected(r) ==
    /\ req[r].pc \in { "done" }
    /\ req[r].status # 200
    /\ req[r].response.type # "profile" /\ req[r].result.type # "profile"
    /\ req[r].kvWrites = 0

\* C16: a data request whose location is empty or blank, or whose
\* coordinates (from the body or from the provider's reply) are not finite
\* or outside [-90, 90] / [-180, 180], is rejected: it yields no profile
\* and writes no cache entry.
InvalidInputRejected ==
    \A r \in Reqs :
        (/\ req[r].route = DataRoute
         /\ \/ BlankLocation(req[r].body)
            \/ BadBodyCoordinates(req[r].body)
            \/ BadProviderCoordinates(r))
          => Rejected(r) /\ (req[r].cacheKey \notin DOMAIN kv)

\* the part of C16 that concerns the request body only
InvalidBodyRejected ==
    \A r \in Reqs :
        (/\ req[r].route = DataRoute
         /\ \/ BlankLocation(req[r].body)
            \/ BadBodyCoordinates(req[r].body))
          => Rejected(r) /\ req[r].fetches = 0 /\ req[r].kvReads = 0

----------------------------------------------------------------------------
\* request q missed the cache and answered with the profile it computed
Recomputed(q) ==
    /\ q.route = DataRoute /\ q.status = 200
    /\ q.response.type = "profile" /\ q.response.cached = FALSE

\* in requests rq: two requests for one key that both recomputed carry the
\* same weather and solar arrays
SameArrays(rq) ==
    \A r1, r2 \in Reqs :
        (Recomputed(rq[r1]) /\ Recomputed(rq[r2])
         /\ rq[r1].cacheKey = rq[r2].cacheKey)
          => /\ rq[r1].response.weather = rq[r2].response.weather
             /\ rq[r1].response.solar = rq[r2].response.solar

\* every entry of cache is, whole, the result of a request that wrote it
WholeEntries(rq, cache) ==
    \A k \in DOMAIN cache :
        \E r \in Reqs :
            /\ Recomputed(rq[r]) /\ rq[r].kvWrites = 1 /\ rq[r].cacheKey = k
            /\ cache[k].value = rq[r].result

\* the step completes a deferred write of request r
Writes(r) == req[r].pc = "put" /\ req'[r].pc = "done"

Hits(r) ==
    /\ req[r].pc = "get" /\ req'[r].pc # "get"
    /\ req[r].cacheKey \in DOMAIN kv

\* C18: once a data request has missed, succeeded and its write has
\* completed, the entry stays until its expiry, 2592000 s after the write,
\* or until a clear; a data request that reads the key meanwhile returns
\* the stored weather and solar with cached: true and fetches nothing.
CachedUntilExpiry ==
    [][ /\ \A r \in Reqs :
              Hits(r) =>
                  /\ req'[r].pc = "done" /\ req'[r].status = 200
                  /\ req'[r].response.type = "profile"
                  /\ req'[r].response.cached = TRUE
                  /\ req'[r].response.weather = kv[req[r].cacheKey].value.weather
                  /\ req'[r].response.solar = kv[req[r].cacheKey].value.solar
                  /\ req'[r].fetches = 0
        /\ \A r \in Reqs :
              Writes(r) =>
                  /\ req[r].cacheKey \in DOMAIN kv'
                  /\ kv'[req[r].cacheKey].expiration = now + 2592000
        /\ \A k \in DOMAIN kv :
              \/ k \in DOMAIN kv'
              \/ now' >= kv[k].expiration
              \/ \E r \in Reqs : req[r].pc = "clear" /\ req'[r].pc = "done" ]_vars

\* one request wrote the entry at the start; one second before the expiry
\* is over, another request for the key, spelled differently, was served
\* from it
CachedUntilExpiryWitness ==
    \E r1, r2 \in Reqs :
        /\ Recomputed(req[r1]) /\ req[r1].kvWrites = 1
        /\ req[r1].result.cachedAt = 1
        /\ now = DEFAULT_CACHE_TTL
        /\ req[r2].route = DataRoute /\ req[r2].pc = "done"
        /\ req[r2].cacheKey = req[r1].cacheKey
        /\ req[r2].body.location # req[r1].body.location
        /\ req[r2].response.type = "profile" /\ req[r2].response.cached = TRUE
        /\ req[r2].response.weather = req[r1].result.weather
        /\ req[r2].fetches = 0

----------------------------------------------------------------------------
\* the clear-cache click's request has been answered and its refetch has
\* not been sent
ClearAnswered == ui.pc = "relist"

\* the refetch of a clear-cache click returned a profile
Refreshed == ui.refreshed.type = "profile"

\* C19: after a result is shown and the clear-cache button is pressed, the
\* cache entry under which that result was stored no longer exists, and the
\* refetch that follows returns cached: false, whatever text was searched
\* and whether the search went by name or by suggestion coordinates
ClearForcesFreshData ==
    /\ ClearAnswered => ui.storedKey \notin DOMAIN kv
    /\ Refreshed => ~ui.refreshed.cached

----------------------------------------------------------------------------
\* the request in slot q carried a Bearer token that is well-formed, signed
\* with the configured SITE_PASSWORD over the expiry it shows, and whose
\* expiry lay ahead when the request arrived
CarriesValidToken(q) ==
    /\ q.token.form = "token"
    /\ q.token.expiresAt # NaN
    /\ env.SITE_PASSWORD # ""
    /\ q.token.key = env.SITE_PASSWORD
    /\ q.token.payload = q.token.expiresAt
    /\ q.at < q.token.expiresAt

\* the request was answered 401 and nothing was done on its behalf
Refused(q) ==
    /\ q.pc = "done" /\ q.status = 401
    /\ ~q.handler
    /\ q.kvReads = 0 /\ q.kvWrites = 0 /\ q.kvDeletes = 0 /\ q.fetches = 0

\* C20: every request to POST /api/data, GET /api/autocomplete,
\* POST /api/cache/clear or GET /api/cache/list that does not carry a Bearer
\* token that is well-formed, unexpired and signed with the configured
\* SITE_PASSWORD is answered 401, and its handler never runs: no cache
\* read, write or delete and no outbound fetch happens on its behalf
UnauthorizedRefused ==
    \A r \in Reqs :
        (req[r].route \in Guarded /\ ~CarriesValidToken(req[r]))
            => Refused(req[r])

\* the same for every request but the one that arrives at the very instant
\* its token expires
UnauthorizedRefusedOffExpiry ==
    \A r \in Reqs :
        (/\ req[r].route \in Guarded
         /\ ~CarriesValidToken(req[r])
         /\ req[r].at # req[r].token.expiresAt)
            => Refused(req[r])

----------------------------------------------------------------------------
\* the request in slot r went to a protected endpoint with the token the
\* last login issued
UsesIssued(r) ==
    /\ Issued
    /\ req[r].route \in Guarded
    /\ req[r].token = IssuedToken

\* a successful login at t answers expiresAt = t + 24 h and a token for it
IssuedForADay ==
    Issued =>
        /\ req[LoginSlot].response.expiresAt = req[LoginSlot].at + TOKEN_EXPIRY
        /\ IssuedToken.expiresAt = req[LoginSlot].response.expiresAt

\* an issued token with an edited expiry is refused
NoExtension ==
    \A r \in Reqs :
        (Issued /\ req[r].route \in Guarded
                /\ req[r].token = Extended(IssuedToken))
            => req[r].status = 401

\* C21: a token issued by a successful login at t carries expiresAt =
\* t + 24 h, is accepted on protected endpoints at every time before
\* expiresAt, is rejected with 401 at every time from expiresAt onward, and
\* cannot be extended other than by a new login
TokenExpiresAfterADay ==
    /\ IssuedForADay
    /\ \A r \in Reqs :
          UsesIssued(r) =>
              IF req[r].at < IssuedToken.expiresAt
              THEN req[r].handler /\ req[r].status # 401
              ELSE req[r].status = 401 /\ ~req[r].handler
    /\ NoExtension

\* the same with the instant expiresAt itself left out
TokenExpiresAfterADayOffExpiry ==
    /\ IssuedForADay
    /\ \A r \in Reqs :
          (UsesIssued(r) /\ req[r].at # IssuedToken.expiresAt) =>
              IF req[r].at < IssuedToken.expiresAt
              THEN req[r].handler /\ req[r].status # 401
              ELSE req[r].status = 401 /\ ~req[r].handler
    /\ NoExtension

----------------------------------------------------------------------------
\* the entry for key k is not the same after the step as before it
EntryChanges(k) ==
    \/ (k \in DOMAIN kv) # (k \in DOMAIN kv')
    \/ k \in DOMAIN kv /\ k \in DOMAIN kv' /\ kv'[k] # kv[k]

\* the step is the deferred write, under k, of the profile a data request
\* computed after a miss and a successful fetch
FreshWrite(k) ==
    \E r \in Reqs :
        /\ Writes(r) /\ Recomputed(req[r])
        /\ req[r].fetches = 1 /\ req[r].cacheKey = k
        /\ k \in DOMAIN kv' /\ kv'[k].value = req[r].result

\* the step is a cache-clear that names k's location or names none, and
\* deletes k
ClearDelete(k) ==
    \E r \in Reqs :
        /\ req[r].route = ClearRoute
        /\ req[r].pc = "clear" /\ req'[r].pc = "done"
        /\ \/ req[r].body.location = Undefined
           \/ normalizeCacheKey(trim(req[r].body.location)) = k
        /\ k \notin DOMAIN kv'

\* the step is the passing of time to or beyond k's expiration
Expires(k) ==
    /\ now' > now
    /\ k \in DOMAIN kv /\ kv[k].expiration <= now'
    /\ k \notin DOMAIN kv'

\* C22: the entry for a key changes only through the write of a fresh
\* successful computation or through a delete by a cache-clear (and it goes
\* when its TTL is over); a cache hit, a request rejected by validation or
\* auth, a failed weather fetch, an empty-days reply and a cache-list call
\* leave every entry unchanged
ProfileImmutable ==
    [][ \A k \in DOMAIN kv \cup DOMAIN kv' :
            EntryChanges(k) => FreshWrite(k) \/ ClearDelete(k) \/ Expires(k)
      ]_vars

\* an entry stored earlier is still there, as stored, when a later data
\* request has missed under another key and failed on an empty-days reply
ProfileImmutableWitness ==
    \E k \in DOMAIN kv :
        /\ world.days = << >>
        /\ req[1].route = DataRoute /\ req[1].pc = "done"
        /\ req[1].status = 500 /\ req[1].fetches = 1
        /\ req[1].cacheKey # k
        /\ kv[k].value.cachedAt < req[1].at
        /\ kv[k].value.weather = Processed[Austin].weather

----------------------------------------------------------------------------
\* the positions of the reply's records whose datetime parses
ValidDated == { j \in 1..Len(days) : days[j].datetime # <<0, 0, 0>> }

\* the month buckets that hold record d
BucketsOf(d) ==
    { i \in MonthIx :
        \E p \in 1..Len(DaysOfMonth(days, i - 1)) :
            DaysOfMonth(days, i - 1)[p] = d }

RECURSIVE BucketSizes(_)
\* the sizes of the buckets of months 1..n, added up
BucketSizes(n) ==
    IF n = 0 THEN 0 ELSE Len(DaysOfMonth(days, n - 1)) + BucketSizes(n - 1)

\* C23: every daily record whose date parses lands in exactly one month
\* bucket, that of its calendar month whatever its year and its position; a
\* record whose date does not parse is in no bucket and the arrays are
\* produced all the same; the twelve bucket sizes sum to the number of
\* records with a valid date
BucketedByMonth ==
    Done =>
        /\ \A j \in ValidDated :
              BucketsOf(days[j]) = { days[j].datetime[2] }
        /\ \A j \in 1..Len(days) \ ValidDated : BucketsOf(days[j]) = { }
        /\ \A i \in MonthIx :
              Len(DaysOfMonth(days, i - 1)) =
                  Cardinality({ j \in ValidDated : days[j].datetime[2] = i })
        /\ BucketSizes(12) = Cardinality(ValidDated)
        /\ Len(weather) = 12 /\ Len(solar) = 12

\* a reply of a September 2024 record followed by a January 2023 record
\* was processed: each is alone in the bucket of its month
BucketedByMonthWitness ==
    /\ Done /\ Len(days) = 2
    /\ days[1].datetime = <<2024, 9, 30>> /\ days[2].datetime = <<2023, 1, 15>>
    /\ Len(DaysOfMonth(days, 8)) = 1 /\ Len(DaysOfMonth(days, 0)) = 1

----------------------------------------------------------------------------
\* a clear-all request is in its handler
ClearAllRunning ==
    /\ req[1].route = ClearRoute /\ ClearsAll(req[1].body)
    /\ req[1].pc \in { "clear", "clearing" }

\* a clear-all request has been answered
ClearAllReturned ==
    /\ req[1].route = ClearRoute /\ ClearsAll(req[1].body)
    /\ req[1].pc = "done"

\* on return no key with the prefix is left, the other key is untouched and
\* deletedCount counts the deletes made
ClearAllPost ==
    ClearAllReturned =>
        /\ req[1].status = 200
        /\ Prefixed = { }
        /\ OtherKey \in DOMAIN kv /\ kv[OtherKey] = AustinEntry
        /\ req[1].response.deletedCount = req[1].kvDeletes

\* a step of a clear-all deletes as many keys as it adds to the count
ClearAllCounts ==
    ClearAllRunning =>
        /\ DOMAIN kv' \subseteq DOMAIN kv
        /\ Cardinality(DOMAIN kv) - Cardinality(DOMAIN kv')
               = req'[1].deletedCount - req[1].deletedCount

\* C24: a clear-all request with no concurrent writers terminates for any
\* number of entries and any pagination of the listing; on return every key
\* with prefix "location:" has been deleted, no other key has been touched
\* and deletedCount equals the number of keys deleted
ClearAllCompletes ==
    /\ ClearAllRunning ~> ClearAllReturned
    /\ []ClearAllPost
    /\ [][ClearAllCounts]_vars

\* a clear-all that went through three listings has returned deletedCount 4
ClearAllCompletesWitness ==
    /\ ClearAllReturned
    /\ req[1].kvReads = 3
    /\ req[1].response.deletedCount = 4
    /\ DOMAIN kv = { OtherKey }

----------------------------------------------------------------------------
\* the step is the cache read of a data request made by picking entry e
\* of the listing held, while e's entry is stored
PickReads(e) ==
    /\ req[SearchSlot].route = DataRoute
    /\ req[SearchSlot].body.location = e.originalSearch
    /\ req[SearchSlot].pc = "get" /\ req'[SearchSlot].pc # "get"
    /\ e.key \in DOMAIN kv

\* the read found e's entry
HitsEntry(e) ==
    /\ req[SearchSlot].cacheKey = e.key
    /\ req'[SearchSlot].pc = "done" /\ req'[SearchSlot].status = 200
    /\ req'[SearchSlot].response.type = "profile"
    /\ req'[SearchSlot].response.cached

\* C25: for every entry of the cache listing, the originalSearch rebuilt
\* from its key normalizes to that key again, so a search made by picking a
\* listed entry is a cache hit
ListedSearchHits ==
    [][ \A e \in RecentSearches :
            /\ normalizeCacheKey(e.originalSearch) = e.key
            /\ PickReads(e) => HitsEntry(e) ]_vars

\* the same for the entries whose key has no "_" at either end and no two
\* "_" in a row
Unambiguous(str) ==
    /\ Len(str) > 0 /\ str[1] # " " /\ str[Len(str)] # " "
    /\ \A i \in 1..(Len(str) - 1) : ~(str[i] = " " /\ str[i + 1] = " ")

ListedSearchHitsUnambiguous ==
    [][ \A e \in RecentSearches :
            Unambiguous(e.originalSearch) =>
                /\ normalizeCacheKey(e.originalSearch) = e.key
                /\ PickReads(e) => HitsEntry(e) ]_vars

\* the step returns the response of a data request in slot r with status 200
Answers(r) ==
    /\ req[r].route = DataRoute
    /\ req[r].pc \in { "get", "fetch" }
    /\ req'[r].pc \in { "put", "done" }
    /\ req'[r].status = 200

\* the number of years of history the arrays of the response were computed
\* from: the years passed to fetchWeatherData in this request, or, on a cache
\* hit, the years recorded in the stored result the arrays are copied from
ComputedFrom(r) ==
    IF req[r].pc = "fetch"
    THEN EnvNumber(env.YEARS_OF_DATA, DEFAULT_YEARS_OF_DATA)
    ELSE kv[req[r].cacheKey].value.yearsOfData

\* C26: in every response to a data request, cached or fresh, yearsOfData is
\* the number of years of history the weather and solar arrays of that
\* response were computed from, also when YEARS_OF_DATA was changed between
\* the computation and the cache hit
YearsMatchArrays ==
    [][ \A r \in Reqs :
            Answers(r) => req'[r].response.yearsOfData = ComputedFrom(r) ]_vars

\* the same for the fresh responses, and for the cache hits served under the
\* setting the entry was computed under
YearsMatchArraysSameSetting ==
    [][ \A r \in Reqs :
            /\ Answers(r)
            /\ \/ req[r].pc = "fetch"
               \/ kv[req[r].cacheKey].value.yearsOfData =
                      EnvNumber(env.YEARS_OF_DATA, DEFAULT_YEARS_OF_DATA)
            => req'[r].response.yearsOfData = ComputedFrom(r) ]_vars

\* the clear request with body b removes key k
Covers(b, k) ==
    IF ClearsAll(b) THEN HasPrefix(k) ELSE k = normalizeCacheKey(trim(b.location))

\* the step is the deferred cache write of data request r, and it stores an
\* entry that is absent
Recreates(r) ==
    /\ req[r].route = DataRoute
    /\ req[r].pc = "put" /\ req'[r].pc = "done"
    /\ req[r].cacheKey \notin DOMAIN kv
    /\ req[r].cacheKey \in DOMAIN kv'

\* clear request c, received after data request r, has returned success
\* for r's key
ClearedSince(r, c) ==
    /\ r < c
    /\ req[c].route = ClearRoute
    /\ req[c].pc = "done" /\ req[c].status = 200
    /\ Covers(req[c].body, req[r].cacheKey)

\* C27: once a cache clear has returned success for a location, the
\* deferred cache write of a data request that was in flight before the
\* clear does not store the location's entry again
ClearedStaysAbsent ==
    [][ \A r, c \in Reqs : ClearedSince(r, c) => ~Recreates(r) ]_vars

\* an absent entry comes to be stored by the deferred write of a data
\* request only
OnlyPutsStore ==
    [][ \A k \in DOMAIN kv' \ DOMAIN kv :
            \E r \in Reqs : Recreates(r) /\ req[r].cacheKey = k ]_vars

\* C28: the apiLocation dispatched on submit corresponds to the text in the
\* query box at the submit: it is the trimmed text, or the apiLocation of a
\* suggestion whose display text is that text; never the apiLocation of a
\* suggestion selected earlier whose text has been typed over
SubmitMatchesQuery ==
    LET d == ui.dispatched
    IN  d # NoDispatch =>
            \/ d.apiLocation = d.location
            \/ \E s \in Offered(Suggestions(TRUE)) \cup ui.cachedLocations :
                  s.display = d.location /\ s.apiLocation = d.apiLocation

\* the same while no suggestion has been selected
SubmitMatchesQueryUnselected ==
    ui.selectedApiLocation = << >> /\ ui.dispatched # NoDispatch =>
        ui.dispatched.apiLocation = ui.dispatched.location

\* every autocomplete response has arrived, after a run of search() that
\* called fetchAutocomplete
AllArrived == ui.awaiting = { } /\ ui.latest # Undefined

\* C29: once all outstanding autocomplete responses have arrived, the
\* suggestions shown are those of the query issued last: a slower response to
\* an older query does not overwrite them
LatestQueryShown ==
    AllArrived => ui.suggestions = Offered(Suggestions(Finds(ui.latest)))

\* the response to the query issued last shows that query's suggestions when
\* it arrives
LatestQueryShownOnArrival ==
    [][ \A r \in Reqs :
            /\ r \in ui.awaiting /\ r \notin ui'.awaiting
            /\ req[r].body.q = ui.latest
            => ui'.suggestions = Offered(Suggestions(Finds(ui.latest))) ]_vars

\* the client awaits the response in slot r and the worker has answered 401
Awaits401(r) ==
    /\ r = ui.slot \/ r \in ui.awaiting
    /\ req[r].pc = "done" /\ req[r].status = 401

\* the step is the client reading that response
Reads401(r) ==
    /\ Awaits401(r)
    /\ ui'.slot # r /\ r \notin ui'.awaiting

\* clearAuth has run: token and expiry removed from localStorage, the auth
\* store unauthenticated
SignedOut ==
    /\ ui.token = NoHeader /\ ui.tokenExpiry = Absent
    /\ ~ui.isAuthenticated

\* C30: whenever a client API call (data, cache clear, cache list,
\* autocomplete) receives a 401, the stored token and expiry are removed and
\* the auth store becomes unauthenticated, and the login view is eventually
\* shown
AuthErrorHandled ==
    /\ [][ \A r \in Reqs : Reads401(r) => SignedOut' ]_vars
    /\ (\E r \in Reqs : Awaits401(r)) ~> (ui.view = "login")

\* a 401 to a data or cache clear call is reported as an authentication
\* failure in the ui store
AuthErrorReported ==
    [][ \A r \in Reqs :
            Reads401(r) /\ r = ui.slot /\ ui.pc \in { "data", "clear" }
            => ui'.error = "Authentication failed" ]_vars

====
